---- MODULE Spec2Model ----
(***************************************************************************)
(* A model of the course web server: the HttpServer life cycle (start,     *)
(* stop, destructor, accept loop, detached per-connection workers), its    *)
(* request routing and response framing, and the lesson catalog it serves. *)
(* Strings are sequences of one-character strings, positions are 0-based   *)
(* as in std::string, and npos is -1.                                      *)
(***************************************************************************)
EXTENDS Integers, Sequences, FiniteSets, TLC

\* ------------------------------------------------------------------ bounds
\* Listening sockets the operating system hands out over one server's life.
MaxSockets == 2
\* Connections accepted over one server's life.
MaxConns == 2
\* The longest response body built from single characters.
MaxBodyLen == 3
\* The most header lines in a request written line by line.
MaxHeaderLines == 2
\* The most lines of a lesson text written line by line.
MaxMarkdownLines == 4
\* The most markers and characters of a lesson text written piece by piece.
MaxMarkdownLen == 4

VARIABLES
  running_,       \* HttpServer::running_
  serverSocket_,  \* HttpServer::serverSocket_: a socket id, or -1
  acceptThread_,  \* HttpServer::acceptThread_: 0 (not joinable) or the id of the thread it owns
  caller,         \* the thread calling start()/stop()/~HttpServer(): [op, pc]
  sockets,        \* operating system: socket id -> [state, closes]
  loops,          \* accept-loop threads: thread id -> [pc, fd, wake, hist]
  workers,        \* per-connection worker threads: connection id -> [pc, sent, response]
  routes_,        \* HttpServer::routes_: method -> path -> handler
  modules_,       \* LessonLoader::modules_: module name -> [name, lessons, lessonData]
  moduleOrder_,   \* LessonLoader::moduleOrder_
  courseModules_, \* HttpServer::courseModules_: module name -> lesson names
  renderLog,      \* the calls of markdownToHtml made so far, each <<module, lesson>>
  disk,           \* the lessons directory and the static files
  buffers,        \* the `char buffer[4096]` of each handleClient call
  probe           \* the last result of a function applied on its own

\* What the life cycle of the server never touches.
site == <<routes_, modules_, moduleOrder_, courseModules_, renderLog, disk, buffers, probe>>

vars == <<running_, serverSocket_, acceptThread_, caller, sockets, loops, workers, site>>

SocketIds == 1..MaxSockets
ThreadIds == 1..MaxSockets
ConnIds == 1..MaxConns

\* ----------------------------------------------------------------- strings
\* std::string::npos
npos == -1

\* The backquote character (which cannot be written inside a string here).
Backtick == "BACKTICK"

\* The character at 0-based position i of s.
At(s, i) == s[i + 1]

\* s.substr(pos, n): at most n characters from 0-based position pos.
SubStr(s, pos, n) == SubSeq(s, pos + 1, IF pos + n > Len(s) THEN Len(s) ELSE pos + n)

\* s.substr(pos): the rest of s from 0-based position pos.
SubStrFrom(s, pos) == SubSeq(s, pos + 1, Len(s))

\* Whether needle occurs in s at 0-based position i.
MatchAt(s, needle, i) == i >= 0 /\ i + Len(needle) <= Len(s) /\ SubSeq(s, i + 1, i + Len(needle)) = needle

\* s.find(needle, pos): the first 0-based position >= pos where needle occurs, or npos.
Find(s, needle, pos) ==
  LET hits == {i \in pos..(Len(s) - Len(needle)) : MatchAt(s, needle, i)}
  IN IF hits = {} THEN npos ELSE CHOOSE i \in hits : \A j \in hits : i <= j

Digits == <<"0", "1", "2", "3", "4", "5", "6", "7", "8", "9">>

RECURSIVE IntToStr(_)
\* operator<<(std::ostream&, int) for n >= 0: the decimal digits of n.
IntToStr(n) == IF n < 10 THEN <<Digits[n + 1]>> ELSE IntToStr(n \div 10) \o <<Digits[(n % 10) + 1]>>

\* ------------------------------------------------- createHttpResponse()
CRLF == <<"\r", "\n">>

\* The reason phrase: the switch of createHttpResponse.
StatusText(statusCode) ==
  CASE statusCode = 200 -> <<"O", "K">>
    [] statusCode = 404 -> <<"N", "o", "t", " ", "F", "o", "u", "n", "d">>
    [] statusCode = 405 -> <<"M", "e", "t", "h", "o", "d", " ", "N", "o", "t", " ", "A", "l", "l", "o", "w", "e", "d">>
    [] OTHER -> <<"I", "n", "t", "e", "r", "n", "a", "l", " ", "S", "e", "r", "v", "e", "r", " ", "E", "r", "r", "o", "r">>

\* A length that counts the characters of a text-mode body (CR dropped).
ContentLengthOfText(body) == Cardinality({i \in 1..Len(body) : body[i] # "\r"})

\* The value written after "Content-Length: ": body.length().
ContentLengthValue(body) == Len(body)

createHttpResponse(statusCode, contentType, body) ==
  <<"H", "T", "T", "P", "/", "1", ".", "1", " ">> \o IntToStr(statusCode) \o <<" ">> \o StatusText(statusCode) \o CRLF
  \o <<"C", "o", "n", "t", "e", "n", "t", "-", "T", "y", "p", "e", ":", " ">> \o contentType \o CRLF
  \o <<"C", "o", "n", "t", "e", "n", "t", "-", "L", "e", "n", "g", "t", "h", ":", " ">> \o IntToStr(ContentLengthValue(body)) \o CRLF
  \o <<"A", "c", "c", "e", "s", "s", "-", "C", "o", "n", "t", "r", "o", "l", "-", "A", "l", "l", "o", "w", "-", "O", "r", "i", "g", "i", "n", ":", " ", "*">> \o CRLF
  \o <<"C", "o", "n", "n", "e", "c", "t", "i", "o", "n", ":", " ", "c", "l", "o", "s", "e">> \o CRLF
  \o CRLF
  \o body

\* --------------------------------------------------------- markdownToHtml
\* Line terminators of the ECMAScript regex grammar, which `.` does not match
\* and after which a multiline `^` matches.
IsLineTerm(c) == c \in {"\n", "\r"}

\* \s of the regex grammar (form feed and vertical tab do not occur in the
\* model's texts).
IsSpace(c) == c \in {" ", "\t", "\n", "\r"}

IsDigit(c) == c \in {"0", "1", "2", "3", "4", "5", "6", "7", "8", "9"}

\* A multiline `^` matches at position i of s.
AtLineStart(s, i) == i = 0 \/ IsLineTerm(At(s, i - 1))

\* The least element of a non-empty set of integers.
Min(S) == CHOOSE x \in S : \A y \in S : x <= y

\* The end of the longest run of \s characters starting at p.
SkipSpaces(s, p) == Min({q \in p..(Len(s) - 1) : ~IsSpace(At(s, q))} \cup {IF p > Len(s) THEN p ELSE Len(s)})

\* The end of the longest run of digits starting at p.
SkipDigits(s, p) == Min({q \in p..(Len(s) - 1) : ~IsDigit(At(s, q))} \cup {IF p > Len(s) THEN p ELSE Len(s)})

\* The end of the longest run of `.` characters starting at p.
LineEnd(s, p) == Min({q \in p..(Len(s) - 1) : IsLineTerm(At(s, q))} \cup {IF p > Len(s) THEN p ELSE Len(s)})

NoMatch == [ok |-> FALSE, from |-> 0, to |-> 0]

\* The match of `\s+(.+)$` at position p: \s+ is greedy and gives characters
\* back only when (.+) would otherwise be empty. from..to-1 is group 1.
LineTail(s, p) ==
  LET last(q) == [ok |-> TRUE, from |-> q, to |-> q + 1]
      giveBack(back) == IF back = {} THEN NoMatch ELSE last(CHOOSE x \in back : \A y \in back : y <= x)
      after(w) ==
        IF w = p THEN NoMatch
        ELSE IF w < Len(s) THEN [ok |-> TRUE, from |-> w, to |-> LineEnd(s, w)]
        ELSE giveBack({q \in (p + 1)..(Len(s) - 1) : ~IsLineTerm(At(s, q))})
  IN after(SkipSpaces(s, p))

\* Where the line prefix of a pattern ends when it matches at i, or npos:
\* <<"#", k>> is `#` k times, <<"-", 1>> is `-`, <<"d", 1>> is `\d+\.`.
PrefixEnd(s, i, kind) ==
  IF kind[1] = "#" THEN
    (IF i + kind[2] <= Len(s) /\ \A j \in i..(i + kind[2] - 1) : At(s, j) = "#" THEN i + kind[2] ELSE npos)
  ELSE IF kind[1] = "-" THEN
    (IF i < Len(s) /\ At(s, i) = "-" THEN i + 1 ELSE npos)
  ELSE
    (LET dot(j) == IF j > i /\ j < Len(s) /\ At(s, j) = "." THEN j + 1 ELSE npos IN dot(SkipDigits(s, i)))

\* The match of `^<prefix>\s+(.+)$` at position i.
LineMatch(s, i, kind) ==
  IF ~AtLineStart(s, i) THEN NoMatch
  ELSE LET tail(p) == IF p = npos THEN NoMatch ELSE LineTail(s, p) IN tail(PrefixEnd(s, i, kind))

RECURSIVE ReplaceLines(_, _, _, _, _)
\* std::regex_replace(s, `^<prefix>\s+(.+)$`, open $1 close) from position i on.
ReplaceLines(s, i, kind, open, close) ==
  LET replaced(j, m) ==
        SubSeq(s, i + 1, j) \o open \o SubSeq(s, m.from + 1, m.to) \o close
        \o ReplaceLines(s, m.to, kind, open, close)
      first(j) == replaced(j, LineMatch(s, j, kind))
      from(starts) == IF starts = {} THEN SubStrFrom(s, i) ELSE first(Min(starts))
  IN from({j \in i..(Len(s) - 1) : LineMatch(s, j, kind).ok})

processHeaders(markdown) ==
  LET h1 == ReplaceLines(markdown, 0, <<"#", 1>>, <<"<", "h", "1", ">">>, <<"<", "/", "h", "1", ">">>)
      h2 == ReplaceLines(h1, 0, <<"#", 2>>, <<"<", "h", "2", ">">>, <<"<", "/", "h", "2", ">">>)
      h3 == ReplaceLines(h2, 0, <<"#", 3>>, <<"<", "h", "3", ">">>, <<"<", "/", "h", "3", ">">>)
  IN ReplaceLines(h3, 0, <<"#", 4>>, <<"<", "h", "4", ">">>, <<"<", "/", "h", "4", ">">>)

\* s.erase(0, s.find_first_not_of(chars))
TrimLeft(s, chars) ==
  LET keep == {k \in 1..Len(s) : s[k] \notin chars}
  IN IF keep = {} THEN <<>> ELSE SubSeq(s, Min(keep), Len(s))

\* s.erase(s.find_last_not_of(chars) + 1)
TrimRight(s, chars) ==
  LET keep == {k \in 1..Len(s) : s[k] \notin chars}
  IN IF keep = {} THEN <<>> ELSE SubSeq(s, 1, CHOOSE k \in keep : \A j \in keep : j <= k)

Trim(s, chars) == TrimRight(TrimLeft(s, chars), chars)

\* s.replace(pos, n, with)
Replace(s, pos, n, with) == SubSeq(s, 1, pos) \o with \o SubSeq(s, pos + n + 1, Len(s))

Fence == <<Backtick, Backtick, Backtick>>

\* What one fenced block becomes: the language line (when the fence line has
\* one) and the code between the fences, copied without escaping.
CodeBlockHtml(html, start, end) ==
  LET block(language, codeContent) ==
        IF language = <<"c", "p", "p">> \/ language = <<"c", "+", "+">>
            THEN <<"<", "d", "i", "v", " ", "c", "l", "a", "s", "s", "=", "\"", "c", "o", "d", "e", "-", "e", "x", "a", "m", "p", "l", "e", "\"", ">", "<", "p", "r", "e", ">", "<", "c", "o", "d", "e", " ", "c", "l", "a", "s", "s", "=", "\"", "l", "a", "n", "g", "u", "a", "g", "e", "-", "c", "p", "p", "\"", ">">> \o codeContent \o <<"<", "/", "c", "o", "d", "e", ">", "<", "/", "p", "r", "e", ">", "<", "/", "d", "i", "v", ">">>
            ELSE <<"<", "d", "i", "v", " ", "c", "l", "a", "s", "s", "=", "\"", "c", "o", "d", "e", "-", "e", "x", "a", "m", "p", "l", "e", "\"", ">", "<", "p", "r", "e", ">", "<", "c", "o", "d", "e", ">">> \o codeContent \o <<"<", "/", "c", "o", "d", "e", ">", "<", "/", "p", "r", "e", ">", "<", "/", "d", "i", "v", ">">>
      content(langStart, newlinePos, hasLang) ==
        block(IF hasLang THEN Trim(SubStr(html, langStart, newlinePos - langStart), {" ", "\t"}) ELSE <<>>,
              Trim(IF hasLang THEN SubStr(html, newlinePos + 1, end - newlinePos - 1)
                              ELSE SubStr(html, langStart, end - langStart),
                   {" ", "\t", "\r", "\n"}))
      line(langStart, newlinePos) == content(langStart, newlinePos, newlinePos # npos /\ newlinePos < end)
      fence(langStart) == line(langStart, Find(html, <<"\n">>, langStart))
  IN fence(start + 3)

RECURSIVE FencedBlocks(_, _)
\* The first loop of processCodeBlocks, from position pos on.
FencedBlocks(html, pos) ==
  LET replaced(start, end, codeHtml) ==
        FencedBlocks(Replace(html, start, end - start + 3, codeHtml), start + Len(codeHtml))
      block(start, end) ==
        IF start = npos \/ end = npos THEN html ELSE replaced(start, end, CodeBlockHtml(html, start, end))
      opened(start) == block(start, IF start = npos THEN npos ELSE Find(html, Fence, start + 3))
  IN opened(Find(html, Fence, pos))

\* `html.substr(pos - 1, 6) == "</code>"`: the test that is meant to skip a
\* backtick that follows a code block. It compares six characters with the
\* seven of "</code>".
InsideCodeBlock(html, pos) == pos > 0 /\ SubStr(html, pos - 1, 6) = <<"<", "/", "c", "o", "d", "e", ">">>

RECURSIVE InlineCode(_, _)
\* The second loop of processCodeBlocks, from position pos on.
InlineCode(html, pos) ==
  LET replaced(p, end, codeHtml) == InlineCode(Replace(html, p, end - p + 1, codeHtml), p + Len(codeHtml))
      span(p, end) ==
        IF p = npos THEN html
        ELSE IF InsideCodeBlock(html, p) THEN InlineCode(html, p + 1)
        ELSE IF end = npos THEN html
        ELSE replaced(p, end, <<"<", "c", "o", "d", "e", ">">> \o SubStr(html, p + 1, end - p - 1) \o <<"<", "/", "c", "o", "d", "e", ">">>)
      opened(p) == span(p, IF p = npos THEN npos ELSE Find(html, <<Backtick>>, p + 1))
  IN opened(Find(html, <<Backtick>>, pos))

processCodeBlocks(markdown) == InlineCode(FencedBlocks(markdown, 0), 0)

\* The end of a bold span taken for the first character after its opening
\* marker, whether a closing marker is there or not.
BoldEndAtOnce(html, from) == IF from <= Len(html) THEN from ELSE npos

\* html.find("**", start + 2): where the bold span that opens before from ends.
BoldEnd(html, from) == Find(html, <<"*", "*">>, from)

RECURSIVE BoldFrom(_, _)
\* The loop of processBoldText (and of the cells of processTableRow).
BoldFrom(html, pos) ==
  LET replaced(start, end, boldText) ==
        BoldFrom(Replace(html, start, end - start + 2, <<"<", "s", "t", "r", "o", "n", "g", ">">> \o boldText \o <<"<", "/", "s", "t", "r", "o", "n", "g", ">">>),
                 start + 8 + Len(boldText))
      span(start, end) ==
        IF start = npos \/ end = npos THEN html ELSE replaced(start, end, SubStr(html, start + 2, end - start - 2))
      opened(start) == span(start, IF start = npos THEN npos ELSE BoldEnd(html, start + 2))
  IN opened(Find(html, <<"*", "*">>, pos))

processBoldText(markdown) == BoldFrom(markdown, 0)

RECURSIVE LiRunEnd(_, _)
\* Where the longest match of `(<li>.*?</li>\s*)+` starting at i ends, or npos.
LiRunEnd(s, i) ==
  IF ~MatchAt(s, <<"<", "l", "i", ">">>, i) THEN npos
  ELSE LET longest(e, more) == IF more = npos THEN e ELSE more
           next(e) == longest(e, LiRunEnd(s, e))
           closed(j) == IF j = npos \/ LineEnd(s, i + 4) < j THEN npos ELSE next(SkipSpaces(s, j + 5))
       IN closed(Find(s, <<"<", "/", "l", "i", ">">>, i + 4))

RECURSIVE WrapLists(_, _)
\* std::regex_replace(s, `(<li>.*?</li>\s*)+`, "<ul>$&</ul>") from position i on.
WrapLists(s, i) ==
  LET wrapped(j, e) ==
        SubSeq(s, i + 1, j) \o <<"<", "u", "l", ">">> \o SubSeq(s, j + 1, e) \o <<"<", "/", "u", "l", ">">>
        \o WrapLists(s, e)
      first(j) == wrapped(j, LiRunEnd(s, j))
      from(starts) == IF starts = {} THEN SubStrFrom(s, i) ELSE first(Min(starts))
  IN from({j \in i..(Len(s) - 1) : LiRunEnd(s, j) # npos})

processLists(markdown) ==
  LET items == ReplaceLines(markdown, 0, <<"-", 1>>, <<"<", "l", "i", ">">>, <<"<", "/", "l", "i", ">">>)
      wrapped == WrapLists(items, 0)
  IN ReplaceLines(wrapped, 0, <<"d", 1>>, <<"<", "l", "i", ">">>, <<"<", "/", "l", "i", ">">>)

\* The match of `\[([^\]]+)\]\(([^)]+)\)` at position i: [ok, text end, url end].
LinkMatch(s, i) ==
  LET link(j, k) ==
        IF i < Len(s) /\ At(s, i) = "[" /\ j # npos /\ j >= i + 2 /\ MatchAt(s, <<"(">>, j + 1) /\ k # npos /\ k >= j + 3
          THEN [ok |-> TRUE, from |-> j, to |-> k]
          ELSE NoMatch
      text(j) == link(j, IF j = npos THEN npos ELSE Find(s, <<")">>, j + 2))
  IN text(Find(s, <<"]">>, i + 1))

RECURSIVE ReplaceLinks(_, _)
ReplaceLinks(s, i) ==
  LET replaced(j, m) ==
        SubSeq(s, i + 1, j)
        \o <<"<", "a", " ", "h", "r", "e", "f", "=", "\"">> \o SubSeq(s, m.from + 3, m.to) \o <<"\"", ">">>
        \o SubSeq(s, j + 2, m.from) \o <<"<", "/", "a", ">">>
        \o ReplaceLinks(s, m.to + 1)
      first(j) == replaced(j, LinkMatch(s, j))
      from(starts) == IF starts = {} THEN SubStrFrom(s, i) ELSE first(Min(starts))
  IN from({j \in i..(Len(s) - 1) : LinkMatch(s, j).ok})

processLinks(markdown) == ReplaceLinks(markdown, 0)

RECURSIVE SplitAll(_, _)
\* The pieces of s between the delimiters d, the piece after the last one included.
SplitAll(s, d) ==
  LET j == Find(s, <<d>>, 0)
  IN IF j = npos THEN <<s>> ELSE <<SubSeq(s, 1, j)>> \o SplitAll(SubStrFrom(s, j + 1), d)

\* What repeated std::getline(stream, piece, d) reads from s: the pieces
\* between the delimiters, without a last empty piece.
GetLines(s, d) ==
  LET read(all) == IF all[Len(all)] = <<>> THEN SubSeq(all, 1, Len(all) - 1) ELSE all
  IN read(SplitAll(s, d))

RECURSIVE Cells(_)
\* The <td> cells of processTableRow for the pieces after the first.
Cells(pieces) ==
  IF pieces = <<>> THEN <<>>
  ELSE <<"<", "t", "d", ">">> \o BoldFrom(Trim(Head(pieces), {" ", "\t"}), 0) \o <<"<", "/", "t", "d", ">">> \o Cells(Tail(pieces))

processTableRow(row) ==
  LET cells(pieces) == IF pieces = <<>> THEN <<>> ELSE Cells(Tail(pieces))
  IN <<"<", "t", "r", ">">> \o cells(GetLines(row, "|")) \o <<"<", "/", "t", "r", ">">>

\* A line that starts and ends with `|`.
IsTableRow(line) == line # <<>> /\ line[1] = "|" /\ line[Len(line)] = "|"

\* std::all_of over the characters of the line: `|`, `-` or space.
IsSeparator(line) == \A k \in 1..Len(line) : line[k] \in {"|", "-", " "}

\* Whether the line after table row i is skipped as a separator.
SkipsNext(lines, i) == i + 1 <= Len(lines) /\ IsSeparator(lines[i + 1])

RECURSIVE TableLoop(_, _, _)
\* The for loop of processTables from line i (1-based) on.
TableLoop(lines, i, inTable) ==
  IF i > Len(lines) THEN (IF inTable THEN <<"<", "/", "t", "a", "b", "l", "e", ">", "<", "/", "d", "i", "v", ">">> ELSE <<>>)
  ELSE IF IsTableRow(lines[i])
    THEN (IF inTable THEN <<>> ELSE <<"<", "d", "i", "v", " ", "c", "l", "a", "s", "s", "=", "\"", "t", "a", "b", "l", "e", "-", "c", "o", "n", "t", "a", "i", "n", "e", "r", "\"", ">", "<", "t", "a", "b", "l", "e", " ", "c", "l", "a", "s", "s", "=", "\"", "c", "o", "u", "r", "s", "e", "-", "t", "a", "b", "l", "e", "\"", ">">>)
         \o processTableRow(lines[i])
         \o TableLoop(lines, IF SkipsNext(lines, i) THEN i + 2 ELSE i + 1, TRUE)
    ELSE (IF inTable THEN <<"<", "/", "t", "a", "b", "l", "e", ">", "<", "/", "d", "i", "v", ">">> ELSE <<>>)
         \o lines[i] \o <<"\n">>
         \o TableLoop(lines, i + 1, FALSE)

processTables(markdown) == TableLoop(GetLines(markdown, "\n"), 1, FALSE)

markdownToHtml(markdown) ==
  processTables(processLinks(processLists(processBoldText(processCodeBlocks(processHeaders(markdown))))))

\* ---------------------------------------------------------------- std::map
\* The characters of the names in the model, in the order of their codes.
Ascii == <<"-", ".", "/", "0", "1", "2", "3", "4", "5", "6", "7", "8", "9", "_", "a", "b", "c", "d", "e", "f",
      "g", "h", "i", "j", "k", "l", "m", "n", "o", "p", "q", "r", "s", "t", "u", "v", "w", "x", "y", "z">>

Code(ch) == CHOOSE k \in 1..Len(Ascii) : Ascii[k] = ch

RECURSIVE Less(_, _)
\* operator< of std::string, the key order of std::map<std::string, ...>.
Less(a, b) ==
  IF b = <<>> THEN FALSE
  ELSE IF a = <<>> THEN TRUE
  ELSE IF Head(a) = Head(b) THEN Less(Tail(a), Tail(b))
  ELSE Code(Head(a)) < Code(Head(b))

RECURSIVE KeysInOrder(_)
\* The keys of a std::map in the order its iteration visits them.
KeysInOrder(keys) ==
  IF keys = {} THEN <<>>
  ELSE LET least == CHOOSE k \in keys : \A other \in keys \ {k} : Less(k, other)
       IN <<least>> \o KeysInOrder(keys \ {least})

\* m[key] = value
MapPut(m, key, value) == [k \in DOMAIN m \cup {key} |-> IF k = key THEN value ELSE m[k]]

\* The elements of a std::vector.
Range(seq) == {seq[i] : i \in 1..Len(seq)}

\* std::find(v.begin(), v.end(), x) != v.end()
Contains(seq, x) == x \in Range(seq)

RECURSIVE Concat(_)
\* The pieces a loop writes to a stream one after the other.
Concat(pieces) == IF pieces = <<>> THEN <<>> ELSE Head(pieces) \o Concat(Tail(pieces))

\* A loop that appends none of the names.
AppendNone(sorted, names) == sorted

RECURSIVE AppendMissing(_, _)
\* for (x : names) if (find(sorted, x) == end) sorted.push_back(x);
AppendMissing(sorted, names) ==
  IF names = <<>> THEN sorted
  ELSE AppendMissing(IF Contains(sorted, Head(names)) THEN sorted ELSE Append(sorted, Head(names)), Tail(names))

\* ------------------------------------------------------------- file system
\* What the server finds on disk: the lessons root as the sequence of its
\* entries in the order directory_iterator yields them (each module directory
\* with its files in iteration order), and the files under ../static.
Md == <<".", "m", "d">>

LessonFile(stem, ext, readable, content) == [stem |-> stem, ext |-> ext, readable |-> readable, content |-> content]

ModuleDir(name, files) == [name |-> name, dir |-> TRUE, files |-> files]

PlainFile(name) == [name |-> name, dir |-> FALSE, files |-> <<>>]

\* The paths under ../static that std::ifstream opens, with what reading them
\* yields: a file gives its bytes, a directory opens and reads as empty.
StaticFiles ==
  (<<".", ".", "/", "s", "t", "a", "t", "i", "c", "/", "c", "s", "s", "/", "s", "t", "y", "l", "e", ".", "c", "s", "s">> :> <<"b", "o", "d", "y", "{", "}">>) @@ (<<".", ".", "/", "s", "t", "a", "t", "i", "c", "/", "c", "s", "s", "/">> :> <<>>)
  @@ (<<".", ".", "/", "s", "t", "a", "t", "i", "c", "/", "j", "s", "/", "d", "a", "t", "a", ".", "j", "s", "o", "n">> :> <<"{", "}">>) @@ (<<".", ".", "/", "s", "t", "a", "t", "i", "c", "/", "j", "s", "/", "a", "p", "p", ".", "j", "s">> :> <<"x">>)

\* No candidate lessons directory exists.
NoLessons == [exists |-> FALSE, entries |-> <<>>, static |-> StaticFiles]

\* A lessons directory with a catalogued module, an uncatalogued one, a file
\* that is not a lesson, a lesson that cannot be opened and a stray file.
SomeLessons ==
  [exists |-> TRUE,
   entries |-> <<ModuleDir(<<"f", "u", "n", "d", "a", "m", "e", "n", "t", "a", "l", "s">>,
                   <<LessonFile(<<"s", "o", "c", "k", "e", "t", "s">>, Md, TRUE, <<"#", "#", " ", "S", "o", "c", "k", "e", "t", "s", "\n", "-", " ", "b", "i", "n", "d", "\n">>),
                     LessonFile(<<"i", "n", "t", "r", "o", "d", "u", "c", "t", "i", "o", "n">>, Md, TRUE, <<"#", " ", "I", "n", "t", "r", "o", "\n", "*", "*", "h", "i", "*", "*", "\n">>),
                     LessonFile(<<"n", "o", "t", "e", "s">>, <<".", "t", "x", "t">>, TRUE, <<"x">>)>>),
                 PlainFile(<<"R", "E", "A", "D", "M", "E", ".", "m", "d">>),
                 ModuleDir(<<"e", "x", "t", "r", "a", "s">>,
                   <<LessonFile(<<"d", "r", "a", "f", "t">>, Md, FALSE, <<>>),
                     LessonFile(<<"f", "a", "q">>, Md, TRUE, <<Backtick, "a", Backtick>>)>>)>>,
   static |-> StaticFiles]

Disks == {NoLessons, SomeLessons}

\* The orders in which a directory_iterator can yield the names of a set.
Orders(names) == {order \in [1..Cardinality(names) -> names] : \A name \in names : \E i \in DOMAIN order : order[i] = name}

\* A lessons directory that yields its three module directories in the order
\* moduleOrder: fundamentals, which is in the catalog, with two lessons of the
\* catalog and two others in the order lessonOrder, and extras and appendix,
\* which are not, with the lessons of extras in the order extrasOrder. The
\* file of the lesson unreadable cannot be opened.
LessonsDir(moduleOrder, lessonOrder, extrasOrder, unreadable) ==
  LET file(stem) == LessonFile(stem, Md, stem # unreadable, <<"#", " ">> \o stem \o <<"\n">>)
      files(moduleName) ==
        IF moduleName = <<"f", "u", "n", "d", "a", "m", "e", "n", "t", "a", "l", "s">> THEN [i \in DOMAIN lessonOrder |-> file(lessonOrder[i])]
        ELSE IF moduleName = <<"e", "x", "t", "r", "a", "s">> THEN [i \in DOMAIN extrasOrder |-> file(extrasOrder[i])]
        ELSE <<file(<<"g", "l", "o", "s", "s", "a", "r", "y">>)>>
  IN [exists |-> TRUE,
      entries |-> [i \in DOMAIN moduleOrder |-> ModuleDir(moduleOrder[i], files(moduleOrder[i]))],
      static |-> StaticFiles]

\* The disks the loader is tried on: every order of the modules and of their
\* lessons, with every file readable or one that is not.
LoaderDisks ==
  {LessonsDir(moduleOrder, lessonOrder, extrasOrder, unreadable) :
     moduleOrder \in Orders({<<"f", "u", "n", "d", "a", "m", "e", "n", "t", "a", "l", "s">>, <<"e", "x", "t", "r", "a", "s">>, <<"a", "p", "p", "e", "n", "d", "i", "x">>}),
     lessonOrder \in Orders({<<"s", "o", "c", "k", "e", "t", "s">>, <<"i", "n", "t", "r", "o", "d", "u", "c", "t", "i", "o", "n">>, <<"z", "e", "t", "a">>, <<"a", "l", "p", "h", "a">>}),
     extrasOrder \in Orders({<<"f", "a", "q">>, <<"d", "r", "a", "f", "t">>}),
     unreadable \in {<<>>, <<"s", "o", "c", "k", "e", "t", "s">>, <<"d", "r", "a", "f", "t">>}}
  \cup Disks

\* The texts of the lesson errors.md: texts that contain one of the phrases
\* generateCoursePage looks for, and texts that do not.
PhraseTexts ==
  {<<"L", "e", "s", "s", "o", "n", " ", "N", "o", "t", " ", "F", "o", "u", "n", "d", "\n">>, <<"#", " ", "L", "e", "s", "s", "o", "n", " ", "N", "o", "t", " ", "F", "o", "u", "n", "d", "\n">>, <<"M", "o", "d", "u", "l", "e", " ", "N", "o", "t", " ", "F", "o", "u", "n", "d", "\n">>, <<"a", " ", "M", "o", "d", "u", "l", "e", " ", "N", "o", "t", " ", "F", "o", "u", "n", "d", " ", "e",
      "r", "r", "o", "r", "\n">>,
   <<"l", "e", "s", "s", "o", "n", " ", "n", "o", "t", " ", "f", "o", "u", "n", "d", "\n">>, <<"L", "e", "s", "s", "o", "n", "\n", "N", "o", "t", " ", "F", "o", "u", "n", "d", "\n">>, <<"N", "o", "t", " ", "F", "o", "u", "n", "d", "\n">>, <<"#", " ", "E", "r", "r", "o", "r", "s", "\n">>}

\* A lessons directory whose module fundamentals has the lessons introduction
\* and errors, in one of the two orders, the second with the given text, and a
\* module extras with the lesson faq.
PhraseDir(text, errorsFirst) ==
  LET errors == LessonFile(<<"e", "r", "r", "o", "r", "s">>, Md, TRUE, text)
      introduction == LessonFile(<<"i", "n", "t", "r", "o", "d", "u", "c", "t", "i", "o", "n">>, Md, TRUE, <<"#", " ", "I", "n", "t", "r", "o", "\n">>)
  IN [exists |-> TRUE,
      entries |-> <<ModuleDir(<<"f", "u", "n", "d", "a", "m", "e", "n", "t", "a", "l", "s">>, IF errorsFirst THEN <<errors, introduction>> ELSE <<introduction, errors>>),
                    ModuleDir(<<"e", "x", "t", "r", "a", "s">>, <<LessonFile(<<"f", "a", "q">>, Md, TRUE, <<"x">>)>>)>>,
      static |-> StaticFiles]

PhraseDisks == {PhraseDir(text, errorsFirst) : text \in PhraseTexts, errorsFirst \in BOOLEAN}

\* The disks the navigation is built on: none, the one of the server model,
\* and three modules in every order, with and without a file that cannot be
\* opened.
NavigationDisks ==
  {LessonsDir(moduleOrder, <<<<"z", "e", "t", "a">>, <<"s", "o", "c", "k", "e", "t", "s">>, <<"a", "l", "p", "h", "a">>, <<"i", "n", "t", "r", "o", "d", "u", "c", "t", "i", "o", "n">>>>, <<<<"f", "a", "q">>, <<"d", "r", "a", "f", "t">>>>, unreadable) :
     moduleOrder \in Orders({<<"f", "u", "n", "d", "a", "m", "e", "n", "t", "a", "l", "s">>, <<"e", "x", "t", "r", "a", "s">>, <<"a", "p", "p", "e", "n", "d", "i", "x">>}),
     unreadable \in {<<>>, <<"s", "o", "c", "k", "e", "t", "s">>}}
  \cup Disks

\* --------------------------------------------------------- loadAllLessons()
\* Lesson{}: what lessonData[name] default-constructs for an absent name.
EmptyLesson == [content |-> <<>>, htmlContent |-> <<>>]

\* module.lessonData[lessonName] read in sortLessonsInModule.
LessonDataAt(lessonData, lessonName) ==
  IF lessonName \in DOMAIN lessonData THEN lessonData[lessonName] ELSE EmptyLesson

lessonOrder ==
  (<<"f", "u", "n", "d", "a", "m", "e", "n", "t", "a", "l", "s">> :> <<<<"i", "n", "t", "r", "o", "d", "u", "c", "t", "i", "o", "n">>, <<"s", "o", "c", "k", "e", "t", "s">>, <<"h", "t", "t", "p", "-", "b", "a", "s", "i", "c", "s">>, <<"t", "h", "r", "e", "a", "d", "i", "n", "g">>>>)
  @@ (<<"b", "u", "i", "l", "d", "i", "n", "g", "-", "b", "l", "o", "c", "k", "s">> :> <<<<"s", "e", "r", "v", "e", "r", "-", "c", "l", "a", "s", "s">>, <<"r", "o", "u", "t", "e", "-", "h", "a", "n", "d", "l", "i", "n", "g">>, <<"r", "e", "q", "u", "e", "s", "t", "-", "p", "a", "r", "s", "i", "n", "g">>, <<"r", "e", "s", "p", "o", "n", "s", "e", "-", "g", "e", "n", "e", "r", "a", "t", "i", "o", "n">>>>)
  @@ (<<"a", "d", "v", "a", "n", "c", "e", "d", "-", "f", "e", "a", "t", "u", "r", "e", "s">> :> <<<<"d", "a", "t", "a", "b", "a", "s", "e", "-", "i", "n", "t", "e", "g", "r", "a", "t", "i", "o", "n">>, <<"a", "u", "t", "h", "e", "n", "t", "i", "c", "a", "t", "i", "o", "n">>, <<"e", "r", "r", "o", "r", "-", "h", "a", "n", "d", "l", "i", "n", "g">>, <<"p", "e", "r", "f", "o", "r", "m", "a", "n", "c", "e">>>>)
  @@ (<<"d", "e", "p", "l", "o", "y", "m", "e", "n", "t">> :> <<<<"p", "r", "o", "d", "u", "c", "t", "i", "o", "n", "-", "s", "e", "t", "u", "p">>, <<"m", "o", "n", "i", "t", "o", "r", "i", "n", "g">>, <<"s", "c", "a", "l", "i", "n", "g">>, <<"s", "e", "c", "u", "r", "i", "t", "y">>>>)

sortLessonsInModule(module) ==
  IF module.name \in DOMAIN lessonOrder
    THEN LET desiredOrder == lessonOrder[module.name]
             inOrder == SelectSeq(desiredOrder, LAMBDA lessonName : Contains(module.lessons, lessonName))
             sortedLessons == AppendMissing(inOrder, module.lessons)
         IN [name |-> module.name,
             lessons |-> sortedLessons,
             lessonData |-> [lessonName \in Range(sortedLessons) |-> LessonDataAt(module.lessonData, lessonName)]]
    ELSE module

\* The files of a module directory that the loader takes for lessons.
MarkdownFiles(entry) == SelectSeq(entry.files, LAMBDA f : f.ext = Md)

\* parseMarkdownFile(): the file could be opened.
Parsed(files) == {i \in 1..Len(files) : files[i].readable}

\* The body of the loop over module directories: the Module built from one.
LoadModule(entry) ==
  LET files == MarkdownFiles(entry)
  IN sortLessonsInModule(
       [name |-> entry.name,
        lessons |-> [i \in 1..Len(files) |-> files[i].stem],
        lessonData |-> [lessonName \in {files[i].stem : i \in Parsed(files)} |->
                          LET i == CHOOSE k \in Parsed(files) : files[k].stem = lessonName
                          IN [content |-> files[i].content, htmlContent |-> markdownToHtml(files[i].content)]]])

RECURSIVE RenderCalls(_)
\* The calls of markdownToHtml that loading the module directories makes, in
\* order, each named by <<module, lesson>>.
RenderCalls(dirs) ==
  IF dirs = <<>> THEN <<>>
  ELSE LET files == MarkdownFiles(Head(dirs))
           parsed == SelectSeq(files, LAMBDA f : f.readable)
       IN [i \in 1..Len(parsed) |-> <<Head(dirs).name, parsed[i].stem>>] \o RenderCalls(Tail(dirs))

sortModulesInOrder(modules) ==
  LET desiredOrder == <<<<"f", "u", "n", "d", "a", "m", "e", "n", "t", "a", "l", "s">>, <<"b", "u", "i", "l", "d", "i", "n", "g", "-", "b", "l", "o", "c", "k", "s">>, <<"a", "d", "v", "a", "n", "c", "e", "d", "-", "f", "e", "a", "t", "u", "r", "e", "s">>, <<"d", "e", "p", "l", "o", "y", "m", "e", "n", "t">>>>
      inOrder == SelectSeq(desiredOrder, LAMBDA moduleName : moduleName \in DOMAIN modules)
  IN AppendMissing(inOrder, KeysInOrder(DOMAIN modules))

\* loadAllLessons() on disk d: its return value, modules_, moduleOrder_ and
\* the renderer calls it made.
loadAllLessons(d) ==
  IF ~d.exists
    THEN [ok |-> FALSE, modules |-> <<>>, moduleOrder |-> <<>>, rendered |-> <<>>]
    ELSE LET loaded(dirs, modules) ==
               [ok |-> TRUE, modules |-> modules, moduleOrder |-> sortModulesInOrder(modules),
                rendered |-> RenderCalls(dirs)]
             load(dirs) ==
               loaded(dirs, [moduleName \in {dirs[i].name : i \in 1..Len(dirs)} |->
                               LoadModule(dirs[CHOOSE i \in 1..Len(dirs) : dirs[i].name = moduleName])])
         IN load(SelectSeq(d.entries, LAMBDA e : e.dir))

\* initializeCourseContent(): courseModules_ from the loaded modules, or the
\* built-in catalog when loading failed.
\* An initializeCourseContent without the built-in catalog.
initializeFromLoaderOnly(load) ==
  IF load.ok THEN [moduleName \in DOMAIN load.modules |-> load.modules[moduleName].lessons] ELSE <<>>

initializeCourseContent(load) ==
  IF load.ok
    THEN [moduleName \in DOMAIN load.modules |-> load.modules[moduleName].lessons]
    ELSE (<<"f", "u", "n", "d", "a", "m", "e", "n", "t", "a", "l", "s">> :> <<<<"i", "n", "t", "r", "o", "d", "u", "c", "t", "i", "o", "n">>, <<"s", "o", "c", "k", "e", "t", "s">>, <<"h", "t", "t", "p", "-", "b", "a", "s", "i", "c", "s">>, <<"t", "h", "r", "e", "a", "d", "i", "n", "g">>>>)
         @@ (<<"b", "u", "i", "l", "d", "i", "n", "g", "-", "b", "l", "o", "c", "k", "s">> :> <<<<"s", "e", "r", "v", "e", "r", "-", "c", "l", "a", "s", "s">>, <<"r", "o", "u", "t", "e", "-", "h", "a", "n", "d", "l", "i", "n", "g">>, <<"r", "e", "q", "u", "e", "s", "t", "-", "p", "a", "r", "s", "i", "n", "g">>, <<"r", "e", "s", "p", "o", "n", "s", "e", "-", "g", "e", "n", "e", "r", "a", "t", "i", "o", "n">>>>)
         @@ (<<"a", "d", "v", "a", "n", "c", "e", "d", "-", "f", "e", "a", "t", "u", "r", "e", "s">> :> <<<<"d", "a", "t", "a", "b", "a", "s", "e", "-", "i", "n", "t", "e", "g", "r", "a", "t", "i", "o", "n">>, <<"a", "u", "t", "h", "e", "n", "t", "i", "c", "a", "t", "i", "o", "n">>, <<"e", "r", "r", "o", "r", "-", "h", "a", "n", "d", "l", "i", "n", "g">>, <<"p", "e", "r", "f", "o", "r", "m", "a", "n", "c", "e">>>>)
         @@ (<<"d", "e", "p", "l", "o", "y", "m", "e", "n", "t">> :> <<<<"p", "r", "o", "d", "u", "c", "t", "i", "o", "n", "-", "s", "e", "t", "u", "p">>, <<"m", "o", "n", "i", "t", "o", "r", "i", "n", "g">>, <<"s", "c", "a", "l", "i", "n", "g">>, <<"s", "e", "c", "u", "r", "i", "t", "y">>>>)

\* ------------------------------------------------------------------- pages
generateHTML(title, content) ==
  <<"<", "!", "D", "O", "C", "T", "Y", "P", "E", " ", "h", "t", "m", "l", ">", "<", "h", "t", "m", "l",
      " ", "l", "a", "n", "g", "=", "\"", "e", "n", "\"", ">", "<", "h", "e", "a", "d", ">", "<", "m", "e",
      "t", "a", " ", "c", "h", "a", "r", "s", "e", "t", "=", "\"", "U", "T", "F", "-", "8", "\"", ">", "<",
      "m", "e", "t", "a", " ", "n", "a", "m", "e", "=", "\"", "v", "i", "e", "w", "p", "o", "r", "t", "\"",
      " ", "c", "o", "n", "t", "e", "n", "t", "=", "\"", "w", "i", "d", "t", "h", "=", "d", "e", "v", "i",
      "c", "e", "-", "w", "i", "d", "t", "h", ",", " ", "i", "n", "i", "t", "i", "a", "l", "-", "s", "c",
      "a", "l", "e", "=", "1", ".", "0", "\"", ">">>
  \o <<"<", "t", "i", "t", "l", "e", ">">> \o title \o <<"<", "/", "t", "i", "t", "l", "e", ">">>
  \o <<"<", "l", "i", "n", "k", " ", "r", "e", "l", "=", "\"", "s", "t", "y", "l", "e", "s", "h", "e", "e",
      "t", "\"", " ", "h", "r", "e", "f", "=", "\"", "/", "c", "s", "s", "/", "s", "t", "y", "l", "e", ".",
      "c", "s", "s", "\"", ">", "<", "l", "i", "n", "k", " ", "r", "e", "l", "=", "\"", "s", "t", "y", "l",
      "e", "s", "h", "e", "e", "t", "\"", " ", "h", "r", "e", "f", "=", "\"", "h", "t", "t", "p", "s", ":",
      "/", "/", "c", "d", "n", "j", "s", ".", "c", "l", "o", "u", "d", "f", "l", "a", "r", "e", ".", "c",
      "o", "m", "/", "a", "j", "a", "x", "/", "l", "i", "b", "s", "/", "p", "r", "i", "s", "m", "/", "1",
      ".", "2", "9", ".", "0", "/", "t", "h", "e", "m", "e", "s", "/", "p", "r", "i", "s", "m", ".", "m",
      "i", "n", ".", "c", "s", "s", "\"", ">", "<", "/", "h", "e", "a", "d", ">", "<", "b", "o", "d", "y",
      ">", "<", "n", "a", "v", " ", "c", "l", "a", "s", "s", "=", "\"", "n", "a", "v", "b", "a", "r", "\"",
      ">", "<", "d", "i", "v", " ", "c", "l", "a", "s", "s", "=", "\"", "n", "a", "v", "-", "c", "o", "n",
      "t", "a", "i", "n", "e", "r", "\"", ">", "<", "h", "1", " ", "c", "l", "a", "s", "s", "=", "\"", "n",
      "a", "v", "-", "t", "i", "t", "l", "e", "\"", ">", "xC3", "xB0", "xC5", "xB8", "xC5", "xA1", "xE2", "x82", "xAC", " ",
      "C", "+", "+", " ", "S", "e", "r", "v", "e", "r", " ", "D", "e", "v", "e", "l", "o", "p", "m", "e",
      "n", "t", "<", "/", "h", "1", ">", "<", "u", "l", " ", "c", "l", "a", "s", "s", "=", "\"", "n", "a",
      "v", "-", "m", "e", "n", "u", "\"", ">", "<", "l", "i", ">", "<", "a", " ", "h", "r", "e", "f", "=",
      "\"", "/", "\"", ">", "H", "o", "m", "e", "<", "/", "a", ">", "<", "/", "l", "i", ">", "<", "l", "i",
      ">", "<", "a", " ", "h", "r", "e", "f", "=", "\"", "/", "c", "o", "u", "r", "s", "e", "/", "f", "u",
      "n", "d", "a", "m", "e", "n", "t", "a", "l", "s", "/", "i", "n", "t", "r", "o", "d", "u", "c", "t",
      "i", "o", "n", "\"", ">", "C", "o", "u", "r", "s", "e", "<", "/", "a", ">", "<", "/", "l", "i", ">",
      "<", "l", "i", ">", "<", "a", " ", "h", "r", "e", "f", "=", "\"", "/", "a", "p", "i", "/", "u", "s",
      "e", "r", "s", "\"", ">", "A", "P", "I", "<", "/", "a", ">", "<", "/", "l", "i", ">", "<", "l", "i",
      ">", "<", "a", " ", "h", "r", "e", "f", "=", "\"", "/", "h", "e", "a", "l", "t", "h", "\"", ">", "H",
      "e", "a", "l", "t", "h", "<", "/", "a", ">", "<", "/", "l", "i", ">", "<", "/", "u", "l", ">", "<",
      "/", "d", "i", "v", ">", "<", "/", "n", "a", "v", ">", "<", "m", "a", "i", "n", " ", "c", "l", "a",
      "s", "s", "=", "\"", "m", "a", "i", "n", "-", "c", "o", "n", "t", "e", "n", "t", "\"", ">">>
  \o content
  \o <<"<", "/", "m", "a", "i", "n", ">", "<", "f", "o", "o", "t", "e", "r", " ", "c", "l", "a", "s", "s",
      "=", "\"", "f", "o", "o", "t", "e", "r", "\"", ">", "<", "p", ">", "&", "c", "o", "p", "y", ";", " ",
      "2", "0", "2", "4", " ", "C", "+", "+", " ", "S", "e", "r", "v", "e", "r", " ", "D", "e", "v", "e",
      "l", "o", "p", "m", "e", "n", "t", " ", "C", "o", "u", "r", "s", "e", ".", " ", "B", "u", "i", "l",
      "t", " ", "w", "i", "t", "h", " ", "C", "+", "+", "!", "<", "/", "p", ">", "<", "/", "f", "o", "o",
      "t", "e", "r", ">", "<", "s", "c", "r", "i", "p", "t", " ", "s", "r", "c", "=", "\"", "h", "t", "t",
      "p", "s", ":", "/", "/", "c", "d", "n", "j", "s", ".", "c", "l", "o", "u", "d", "f", "l", "a", "r",
      "e", ".", "c", "o", "m", "/", "a", "j", "a", "x", "/", "l", "i", "b", "s", "/", "p", "r", "i", "s",
      "m", "/", "1", ".", "2", "9", ".", "0", "/", "c", "o", "m", "p", "o", "n", "e", "n", "t", "s", "/",
      "p", "r", "i", "s", "m", "-", "c", "o", "r", "e", ".", "m", "i", "n", ".", "j", "s", "\"", ">", "<",
      "/", "s", "c", "r", "i", "p", "t", ">", "<", "s", "c", "r", "i", "p", "t", " ", "s", "r", "c", "=",
      "\"", "h", "t", "t", "p", "s", ":", "/", "/", "c", "d", "n", "j", "s", ".", "c", "l", "o", "u", "d",
      "f", "l", "a", "r", "e", ".", "c", "o", "m", "/", "a", "j", "a", "x", "/", "l", "i", "b", "s", "/",
      "p", "r", "i", "s", "m", "/", "1", ".", "2", "9", ".", "0", "/", "p", "l", "u", "g", "i", "n", "s",
      "/", "a", "u", "t", "o", "l", "o", "a", "d", "e", "r", "/", "p", "r", "i", "s", "m", "-", "a", "u",
      "t", "o", "l", "o", "a", "d", "e", "r", ".", "m", "i", "n", ".", "j", "s", "\"", ">", "<", "/", "s",
      "c", "r", "i", "p", "t", ">", "<", "s", "c", "r", "i", "p", "t", " ", "s", "r", "c", "=", "\"", "/",
      "j", "s", "/", "a", "p", "p", ".", "j", "s", "\"", ">", "<", "/", "s", "c", "r", "i", "p", "t", ">",
      "<", "/", "b", "o", "d", "y", ">", "<", "/", "h", "t", "m", "l", ">">>

\* What modules_[module] would leave in modules_: a default Module for an absent key.
ModulesAfterIndex(mods, module) ==
  IF module \in DOMAIN mods THEN mods ELSE MapPut(mods, module, [name |-> <<>>, lessons |-> <<>>, lessonData |-> <<>>])

\* What modules_.find(module) leaves in modules_: find never inserts.
ModulesAfterFind(mods, module) == mods

\* A getLessonContent that returns no content for what it does not find.
getLessonContentOrNothing(module, lessonName) ==
  IF module \in DOMAIN modules_ /\ lessonName \in DOMAIN modules_[module].lessonData
    THEN modules_[module].lessonData[lessonName].htmlContent
    ELSE <<>>

getLessonContent(module, lessonName) ==
  IF module \notin DOMAIN modules_
    THEN <<"<", "h", "2", ">", "M", "o", "d", "u", "l", "e", " ", "N", "o", "t", " ", "F", "o", "u", "n", "d",
      "<", "/", "h", "2", ">", "<", "p", ">", "T", "h", "i", "s", " ", "m", "o", "d", "u", "l", "e", " ",
      "i", "s", " ", "n", "o", "t", " ", "a", "v", "a", "i", "l", "a", "b", "l", "e", ".", "<", "/", "p",
      ">">>
    ELSE IF lessonName \notin DOMAIN modules_[module].lessonData
      THEN <<"<", "h", "2", ">", "L", "e", "s", "s", "o", "n", " ", "N", "o", "t", " ", "F", "o", "u", "n", "d",
      "<", "/", "h", "2", ">", "<", "p", ">", "T", "h", "i", "s", " ", "l", "e", "s", "s", "o", "n", " ",
      "i", "s", " ", "n", "o", "t", " ", "a", "v", "a", "i", "l", "a", "b", "l", "e", ".", "<", "/", "p",
      ">">>
      ELSE modules_[module].lessonData[lessonName].htmlContent

getLessonTitle(lessonName) ==
  LET titleMap ==
        (<<"i", "n", "t", "r", "o", "d", "u", "c", "t", "i", "o", "n">> :> <<"I", "n", "t", "r", "o", "d", "u", "c", "t", "i", "o", "n">>)
        @@ (<<"s", "o", "c", "k", "e", "t", "s">> :> <<"S", "o", "c", "k", "e", "t", " ", "P", "r", "o", "g", "r", "a", "m", "m", "i", "n", "g">>)
        @@ (<<"h", "t", "t", "p", "-", "b", "a", "s", "i", "c", "s">> :> <<"H", "T", "T", "P", " ", "P", "r", "o", "t", "o", "c", "o", "l", " ", "B", "a", "s", "i", "c", "s">>)
        @@ (<<"t", "h", "r", "e", "a", "d", "i", "n", "g">> :> <<"M", "u", "l", "t", "i", "-", "t", "h", "r", "e", "a", "d", "i", "n", "g", " ", "&", " ", "C", "o",
      "n", "c", "u", "r", "r", "e", "n", "c", "y">>)
        @@ (<<"s", "e", "r", "v", "e", "r", "-", "c", "l", "a", "s", "s">> :> <<"S", "e", "r", "v", "e", "r", " ", "C", "l", "a", "s", "s", " ", "A", "r", "c", "h", "i", "t", "e",
      "c", "t", "u", "r", "e">>)
        @@ (<<"r", "o", "u", "t", "e", "-", "h", "a", "n", "d", "l", "i", "n", "g">> :> <<"R", "o", "u", "t", "e", " ", "H", "a", "n", "d", "l", "i", "n", "g", " ", "&", " ", "M", "i", "d",
      "d", "l", "e", "w", "a", "r", "e">>)
        @@ (<<"r", "e", "q", "u", "e", "s", "t", "-", "p", "a", "r", "s", "i", "n", "g">> :> <<"R", "e", "q", "u", "e", "s", "t", " ", "P", "a", "r", "s", "i", "n", "g", " ", "&", " ", "V", "a",
      "l", "i", "d", "a", "t", "i", "o", "n">>)
        @@ (<<"r", "e", "s", "p", "o", "n", "s", "e", "-", "g", "e", "n", "e", "r", "a", "t", "i", "o", "n">> :> <<"R", "e", "s", "p", "o", "n", "s", "e", " ", "G", "e", "n", "e", "r", "a", "t", "i", "o", "n", " ",
      "&", " ", "H", "e", "a", "d", "e", "r", "s">>)
        @@ (<<"d", "a", "t", "a", "b", "a", "s", "e", "-", "i", "n", "t", "e", "g", "r", "a", "t", "i", "o", "n">> :> <<"D", "a", "t", "a", "b", "a", "s", "e", " ", "I", "n", "t", "e", "g", "r", "a", "t", "i", "o", "n">>)
        @@ (<<"a", "u", "t", "h", "e", "n", "t", "i", "c", "a", "t", "i", "o", "n">> :> <<"A", "u", "t", "h", "e", "n", "t", "i", "c", "a", "t", "i", "o", "n", " ", "&", " ", "S", "e", "c",
      "u", "r", "i", "t", "y">>)
        @@ (<<"e", "r", "r", "o", "r", "-", "h", "a", "n", "d", "l", "i", "n", "g">> :> <<"E", "r", "r", "o", "r", " ", "H", "a", "n", "d", "l", "i", "n", "g", " ", "&", " ", "L", "o", "g", "g", "i", "n", "g">>)
        @@ (<<"p", "e", "r", "f", "o", "r", "m", "a", "n", "c", "e">> :> <<"P", "e", "r", "f", "o", "r", "m", "a", "n", "c", "e", " ", "O", "p", "t", "i", "m", "i", "z", "a", "t", "i", "o", "n">>)
        @@ (<<"p", "r", "o", "d", "u", "c", "t", "i", "o", "n", "-", "s", "e", "t", "u", "p">> :> <<"P", "r", "o", "d", "u", "c", "t", "i", "o", "n", " ", "S", "e", "t", "u", "p">>)
        @@ (<<"m", "o", "n", "i", "t", "o", "r", "i", "n", "g">> :> <<"M", "o", "n", "i", "t", "o", "r", "i", "n", "g", " ", "&", " ", "O", "b", "s", "e", "r", "v", "a",
      "b", "i", "l", "i", "t", "y">>)
        @@ (<<"s", "c", "a", "l", "i", "n", "g">> :> <<"S", "c", "a", "l", "i", "n", "g", " ", "&", " ", "L", "o", "a", "d", " ", "B", "a", "l", "a", "n", "c", "i", "n", "g">>)
        @@ (<<"s", "e", "c", "u", "r", "i", "t", "y">> :> <<"S", "e", "c", "u", "r", "i", "t", "y", " ", "B", "e", "s", "t", " ", "P", "r", "a", "c", "t", "i", "c", "e", "s">>)
  IN IF lessonName \in DOMAIN titleMap THEN titleMap[lessonName] ELSE lessonName

getModuleTitle(moduleName) ==
  LET titleMap ==
        (<<"f", "u", "n", "d", "a", "m", "e", "n", "t", "a", "l", "s">> :> <<"F", "u", "n", "d", "a", "m", "e", "n", "t", "a", "l", "s">>)
        @@ (<<"b", "u", "i", "l", "d", "i", "n", "g", "-", "b", "l", "o", "c", "k", "s">> :> <<"B", "u", "i", "l", "d", "i", "n", "g", " ", "B", "l", "o", "c", "k", "s">>)
        @@ (<<"a", "d", "v", "a", "n", "c", "e", "d", "-", "f", "e", "a", "t", "u", "r", "e", "s">> :> <<"A", "d", "v", "a", "n", "c", "e", "d", " ", "F", "e", "a", "t", "u", "r", "e", "s">>)
        @@ (<<"d", "e", "p", "l", "o", "y", "m", "e", "n", "t">> :> <<"D", "e", "p", "l", "o", "y", "m", "e", "n", "t", " ", "&", " ", "P", "r", "o", "d", "u", "c", "t", "i", "o", "n">>)
  IN IF moduleName \in DOMAIN titleMap THEN titleMap[moduleName] ELSE moduleName

\* A getPreviousNextLesson that goes round at the ends of the list.
getPreviousNextLessonRound(module, currentLesson) ==
  IF module \notin DOMAIN modules_ THEN <<<<>>, <<>>>>
  ELSE LET around(lessons) ==
             IF ~Contains(lessons, currentLesson) THEN <<<<>>, <<>>>>
             ELSE LET pair(i) == <<lessons[IF i = 1 THEN Len(lessons) ELSE i - 1],
                                   lessons[IF i = Len(lessons) THEN 1 ELSE i + 1]>>
                  IN pair(Min({k \in 1..Len(lessons) : lessons[k] = currentLesson}))
       IN around(modules_[module].lessons)

\* The pair (previous, next) of getPreviousNextLesson.
getPreviousNextLesson(module, currentLesson) ==
  IF module \notin DOMAIN modules_ THEN <<<<>>, <<>>>>
  ELSE LET lessons == modules_[module].lessons
       IN IF ~Contains(lessons, currentLesson) THEN <<<<>>, <<>>>>
          ELSE LET i == Min({k \in 1..Len(lessons) : lessons[k] = currentLesson})
               IN <<IF i # 1 THEN lessons[i - 1] ELSE <<>>,
                    IF i + 1 # Len(lessons) + 1 THEN lessons[i + 1] ELSE <<>>>>

ActiveClass(isActive) == IF isActive THEN <<" ", "c", "l", "a", "s", "s", "=", "\"", "a", "c", "t", "i", "v", "e", "\"">> ELSE <<>>

generateLessonNavigation(module, currentLesson) ==
  LET tab(moduleName) ==
        IF moduleName \in DOMAIN modules_
          THEN LET lessons == modules_[moduleName].lessons
                   firstLesson == IF lessons = <<>> THEN <<"i", "n", "t", "r", "o", "d", "u", "c", "t", "i", "o", "n">> ELSE Head(lessons)
               IN <<"<", "l", "i">> \o ActiveClass(moduleName = module) \o <<">", "<", "a", " ", "h", "r", "e", "f", "=", "\"", "/", "c", "o", "u", "r", "s", "e", "/">> \o moduleName \o <<"/">>
                  \o firstLesson \o <<"\"", ">">> \o getModuleTitle(moduleName) \o <<"<", "/", "a", ">", "<", "/", "l", "i", ">">>
          ELSE <<>>
      item(lessonName) ==
        <<"<", "l", "i">> \o ActiveClass(lessonName = currentLesson) \o <<">", "<", "a", " ", "h", "r", "e", "f", "=", "\"", "/", "c", "o", "u", "r", "s", "e", "/">> \o module \o <<"/">>
        \o lessonName \o <<"\"", ">">> \o getLessonTitle(lessonName) \o <<"<", "/", "a", ">", "<", "/", "l", "i", ">">>
      lessons == IF module \in DOMAIN modules_ THEN modules_[module].lessons ELSE <<>>
      prevNext == getPreviousNextLesson(module, currentLesson)
  IN <<"<", "d", "i", "v", " ", "c", "l", "a", "s", "s", "=", "\"", "c", "o", "u", "r", "s", "e", "-", "n",
      "a", "v", "i", "g", "a", "t", "i", "o", "n", "\"", ">", "<", "d", "i", "v", " ", "c", "l", "a", "s",
      "s", "=", "\"", "n", "a", "v", "-", "h", "e", "a", "d", "e", "r", "\"", ">", "<", "h", "2", ">", "xF0",
      "x9F", "x9A", "x80", " ", "C", "+", "+", " ", "S", "e", "r", "v", "e", "r", " ", "D", "e", "v", "e", "l",
      "o", "p", "m", "e", "n", "t", " ", "C", "o", "u", "r", "s", "e", "<", "/", "h", "2", ">", "<", "d",
      "i", "v", " ", "c", "l", "a", "s", "s", "=", "\"", "b", "r", "e", "a", "d", "c", "r", "u", "m", "b",
      "\"", ">", "<", "a", " ", "h", "r", "e", "f", "=", "\"", "/", "\"", ">", "H", "o", "m", "e", "<", "/",
      "a", ">", " ", "xE2", "x86", "x92", " ", "<", "a", " ", "h", "r", "e", "f", "=", "\"", "/", "#", "c", "o",
      "u", "r", "s", "e", "-", "o", "v", "e", "r", "v", "i", "e", "w", "\"", ">", "C", "o", "u", "r", "s",
      "e", "<", "/", "a", ">", " ", "xE2", "x86", "x92", " ">>
     \o <<"<", "s", "p", "a", "n", " ", "c", "l", "a", "s", "s", "=", "\"", "c", "u", "r", "r", "e", "n", "t",
      "-", "m", "o", "d", "u", "l", "e", "\"", ">">> \o module \o <<"<", "/", "s", "p", "a", "n", ">">>
     \o <<"<", "/", "d", "i", "v", ">", "<", "/", "d", "i", "v", ">", "<", "d", "i", "v", " ", "c", "l", "a",
      "s", "s", "=", "\"", "m", "o", "d", "u", "l", "e", "-", "t", "a", "b", "s", "\"", ">", "<", "u", "l",
      ">">>
     \o Concat([i \in 1..Len(moduleOrder_) |-> tab(moduleOrder_[i])])
     \o <<"<", "/", "u", "l", ">", "<", "/", "d", "i", "v", ">", "<", "d", "i", "v", " ", "c", "l", "a", "s",
      "s", "=", "\"", "m", "o", "d", "u", "l", "e", "-", "n", "a", "v", "i", "g", "a", "t", "i", "o", "n",
      "\"", ">">>
     \o <<"<", "h", "3", ">", "M", "o", "d", "u", "l", "e", ":", " ">> \o getModuleTitle(module) \o <<"<", "/", "h", "3", ">">>
     \o <<"<", "u", "l", " ", "c", "l", "a", "s", "s", "=", "\"", "l", "e", "s", "s", "o", "n", "-", "l", "i", "s", "t", "\"", ">">>
     \o Concat([i \in 1..Len(lessons) |-> item(lessons[i])])
     \o <<"<", "/", "u", "l", ">", "<", "/", "d", "i", "v", ">", "<", "d", "i", "v", " ", "c", "l", "a", "s",
      "s", "=", "\"", "l", "e", "s", "s", "o", "n", "-", "n", "a", "v", "i", "g", "a", "t", "i", "o", "n",
      "\"", ">">>
     \o (IF prevNext[1] # <<>>
           THEN <<"<", "a", " ", "h", "r", "e", "f", "=", "\"", "/", "c", "o", "u", "r", "s", "e", "/">> \o module \o <<"/">> \o prevNext[1] \o <<"\"", " ", "c", "l", "a", "s", "s", "=", "\"", "n", "a", "v", "-", "b", "t", "n", " ", "p", "r", "e",
      "v", "-", "b", "t", "n", "\"", ">", "xE2", "x86", "x90", " ", "P", "r", "e", "v", "i", "o", "u", "s", "<",
      "/", "a", ">">>
           ELSE <<>>)
     \o (IF prevNext[2] # <<>>
           THEN <<"<", "a", " ", "h", "r", "e", "f", "=", "\"", "/", "c", "o", "u", "r", "s", "e", "/">> \o module \o <<"/">> \o prevNext[2] \o <<"\"", " ", "c", "l", "a", "s", "s", "=", "\"", "n", "a", "v", "-", "b", "t", "n", " ", "n", "e", "x",
      "t", "-", "b", "t", "n", "\"", ">", "N", "e", "x", "t", " ", "xE2", "x86", "x92", "<", "/", "a", ">">>
           ELSE <<>>)
     \o <<"<", "/", "d", "i", "v", ">">> \o <<"<", "/", "d", "i", "v", ">">>

generateCoursePage(module, lesson) ==
  LET item(lessonName) ==
        <<"<", "l", "i">> \o ActiveClass(lessonName = lesson) \o <<">", "<", "a", " ", "h", "r", "e", "f", "=", "\"", "/", "c", "o", "u", "r", "s", "e", "/">> \o module \o <<"/">>
        \o lessonName \o <<"\"", ">">> \o lessonName \o <<"<", "/", "a", ">", "<", "/", "l", "i", ">">>
      navigation(loaderNavigation) ==
        IF loaderNavigation # <<>> THEN loaderNavigation
        ELSE IF module \in DOMAIN courseModules_
          THEN <<"<", "d", "i", "v", " ", "c", "l", "a", "s", "s", "=", "\"", "c", "o", "u", "r", "s", "e", "-", "n",
      "a", "v", "i", "g", "a", "t", "i", "o", "n", "\"", ">">> \o <<"<", "h", "2", ">", "M", "o", "d", "u", "l", "e", ":", " ">> \o module \o <<"<", "/", "h", "2", ">">>
               \o <<"<", "u", "l", " ", "c", "l", "a", "s", "s", "=", "\"", "l", "e", "s", "s", "o", "n", "-", "l", "i", "s", "t", "\"", ">">>
               \o Concat([i \in 1..Len(courseModules_[module]) |-> item(courseModules_[module][i])])
               \o <<"<", "/", "u", "l", ">", "<", "/", "d", "i", "v", ">">>
          ELSE <<>>
      content(loaded, missing) ==
        IF missing THEN <<"<", "h", "2", ">">> \o lesson \o <<"<", "/", "h", "2", ">", "<", "p", ">", "L", "e", "s", "s", "o", "n", " ", "c", "o", "n", "t", "e",
      "n", "t", " ", "i", "s", " ", "n", "o", "t", " ", "a", "v", "a", "i", "l", "a", "b", "l", "e", ".",
      "<", "/", "p", ">">> ELSE loaded
      page(loaded, missing) ==
        IF missing /\ module \notin DOMAIN courseModules_ THEN generateHTML(<<"M", "o", "d", "u", "l", "e", " ", "N", "o", "t", " ", "F", "o", "u", "n", "d">>, <<"<", "h", "2", ">", "M", "o", "d", "u", "l", "e", " ", "N", "o", "t", " ", "F", "o", "u", "n", "d",
      "<", "/", "h", "2", ">", "<", "p", ">", "T", "h", "e", " ", "r", "e", "q", "u", "e", "s", "t", "e",
      "d", " ", "m", "o", "d", "u", "l", "e", " ", "d", "o", "e", "s", " ", "n", "o", "t", " ", "e", "x",
      "i", "s", "t", ".", "<", "/", "p", ">">>)
        ELSE IF missing /\ ~Contains(courseModules_[module], lesson) THEN generateHTML(<<"L", "e", "s", "s", "o", "n", " ", "N", "o", "t", " ", "F", "o", "u", "n", "d">>, <<"<", "h", "2", ">", "L", "e", "s", "s", "o", "n", " ", "N", "o", "t", " ", "F", "o", "u", "n", "d",
      "<", "/", "h", "2", ">", "<", "p", ">", "T", "h", "e", " ", "r", "e", "q", "u", "e", "s", "t", "e",
      "d", " ", "l", "e", "s", "s", "o", "n", " ", "d", "o", "e", "s", " ", "n", "o", "t", " ", "e", "x",
      "i", "s", "t", ".", "<", "/", "p", ">">>)
        ELSE generateHTML(<<"C", "+", "+", " ", "S", "e", "r", "v", "e", "r", " ", "D", "e", "v", "e", "l", "o", "p", "m", "e",
      "n", "t", " ", "-", " ">> \o module \o <<" ", "-", " ">> \o lesson,
                          navigation(generateLessonNavigation(module, lesson))
                          \o <<"<", "d", "i", "v", " ", "c", "l", "a", "s", "s", "=", "\"", "l", "e", "s", "s", "o", "n", "-", "c",
      "o", "n", "t", "e", "n", "t", "\"", ">">> \o content(loaded, missing) \o <<"<", "/", "d", "i", "v", ">">>)
      check(loaded) ==
        page(loaded, Find(loaded, <<"L", "e", "s", "s", "o", "n", " ", "N", "o", "t", " ", "F", "o", "u", "n", "d">>, 0) # npos \/ Find(loaded, <<"M", "o", "d", "u", "l", "e", " ", "N", "o", "t", " ", "F", "o", "u", "n", "d">>, 0) # npos)
  IN check(getLessonContent(module, lesson))

\* serveStaticFile(): fileExists(filePath) ? readFileContent(filePath) : "File not found".
serveStaticFile(path) ==
  LET filePath == <<".", ".", "/", "s", "t", "a", "t", "i", "c">> \o path
  IN IF filePath \in DOMAIN disk.static THEN disk.static[filePath] ELSE <<"F", "i", "l", "e", " ", "n", "o", "t", " ", "f", "o", "u", "n", "d">>

getMimeType(path) ==
  IF Find(path, <<".", "h", "t", "m", "l">>, 0) # npos THEN <<"t", "e", "x", "t", "/", "h", "t", "m", "l">>
  ELSE IF Find(path, <<".", "c", "s", "s">>, 0) # npos THEN <<"t", "e", "x", "t", "/", "c", "s", "s">>
  ELSE IF Find(path, <<".", "j", "s">>, 0) # npos THEN <<"a", "p", "p", "l", "i", "c", "a", "t", "i", "o", "n", "/", "j", "a", "v", "a", "s", "c", "r", "i", "p", "t">>
  ELSE IF Find(path, <<".", "j", "s", "o", "n">>, 0) # npos THEN <<"a", "p", "p", "l", "i", "c", "a", "t", "i", "o", "n", "/", "j", "s", "o", "n">>
  ELSE <<"t", "e", "x", "t", "/", "p", "l", "a", "i", "n">>

\* ---------------------------------------------------------- route handlers
handleRoot ==
  <<"<", "d", "i", "v", " ", "c", "l", "a", "s", "s", "=", "\"", "h", "e", "r", "o", "-", "s", "e", "c",
      "t", "i", "o", "n", "\"", ">", "<", "h", "1", ">", "xF0", "x9F", "x9A", "x80", " ", "L", "e", "a", "r", "n",
      " ", "C", "+", "+", " ", "S", "e", "r", "v", "e", "r", " ", "D", "e", "v", "e", "l", "o", "p", "m",
      "e", "n", "t", "<", "/", "h", "1", ">", "<", "p", " ", "c", "l", "a", "s", "s", "=", "\"", "h", "e",
      "r", "o", "-", "s", "u", "b", "t", "i", "t", "l", "e", "\"", ">", "B", "u", "i", "l", "d", " ", "p",
      "r", "o", "d", "u", "c", "t", "i", "o", "n", "-", "r", "e", "a", "d", "y", " ", "H", "T", "T", "P",
      " ", "s", "e", "r", "v", "e", "r", "s", " ", "f", "r", "o", "m", " ", "s", "c", "r", "a", "t", "c",
      "h", " ", "u", "s", "i", "n", "g", " ", "o", "n", "l", "y", " ", "C", "+", "+", " ", "a", "n", "d",
      " ", "s", "y", "s", "t", "e", "m", " ", "l", "i", "b", "r", "a", "r", "i", "e", "s", "<", "/", "p",
      ">", "<", "d", "i", "v", " ", "c", "l", "a", "s", "s", "=", "\"", "h", "e", "r", "o", "-", "b", "u",
      "t", "t", "o", "n", "s", "\"", ">", "<", "a", " ", "h", "r", "e", "f", "=", "\"", "/", "c", "o", "u",
      "r", "s", "e", "/", "f", "u", "n", "d", "a", "m", "e", "n", "t", "a", "l", "s", "/", "i", "n", "t",
      "r", "o", "d", "u", "c", "t", "i", "o", "n", "\"", " ", "c", "l", "a", "s", "s", "=", "\"", "b", "t",
      "n", " ", "b", "t", "n", "-", "p", "r", "i", "m", "a", "r", "y", "\"", ">", "S", "t", "a", "r", "t",
      " ", "L", "e", "a", "r", "n", "i", "n", "g", "<", "/", "a", ">", "<", "a", " ", "h", "r", "e", "f",
      "=", "\"", "/", "a", "p", "i", "/", "u", "s", "e", "r", "s", "\"", " ", "c", "l", "a", "s", "s", "=",
      "\"", "b", "t", "n", " ", "b", "t", "n", "-", "s", "e", "c", "o", "n", "d", "a", "r", "y", "\"", ">",
      "V", "i", "e", "w", " ", "A", "P", "I", "<", "/", "a", ">", "<", "/", "d", "i", "v", ">", "<", "/",
      "d", "i", "v", ">", "<", "d", "i", "v", " ", "c", "l", "a", "s", "s", "=", "\"", "f", "e", "a", "t",
      "u", "r", "e", "s", "-", "g", "r", "i", "d", "\"", ">", "<", "d", "i", "v", " ", "c", "l", "a", "s",
      "s", "=", "\"", "f", "e", "a", "t", "u", "r", "e", "-", "c", "a", "r", "d", "\"", ">", "<", "h", "3",
      ">", "xF0", "x9F", "x8E", "xAF", " ", "H", "a", "n", "d", "s", "-", "O", "n", " ", "L", "e", "a", "r", "n",
      "i", "n", "g", "<", "/", "h", "3", ">", "<", "p", ">", "B", "u", "i", "l", "d", " ", "a", " ", "r",
      "e", "a", "l", " ", "H", "T", "T", "P", " ", "s", "e", "r", "v", "e", "r", " ", "s", "t", "e", "p",
      " ", "b", "y", " ", "s", "t", "e", "p", " ", "w", "i", "t", "h", " ", "i", "n", "t", "e", "r", "a",
      "c", "t", "i", "v", "e", " ", "e", "x", "a", "m", "p", "l", "e", "s", "<", "/", "p", ">", "<", "/",
      "d", "i", "v", ">", "<", "d", "i", "v", " ", "c", "l", "a", "s", "s", "=", "\"", "f", "e", "a", "t",
      "u", "r", "e", "-", "c", "a", "r", "d", "\"", ">", "<", "h", "3", ">", "xE2", "x9A", "xA1", " ", "M", "o",
      "d", "e", "r", "n", " ", "C", "+", "+", "<", "/", "h", "3", ">", "<", "p", ">", "L", "e", "a", "r",
      "n", " ", "C", "+", "+", "1", "7", "/", "2", "0", " ", "f", "e", "a", "t", "u", "r", "e", "s", " ",
      "l", "i", "k", "e", " ", "s", "m", "a", "r", "t", " ", "p", "o", "i", "n", "t", "e", "r", "s", ",",
      " ", "s", "t", "d", ":", ":", "f", "u", "n", "c", "t", "i", "o", "n", ",", " ", "a", "n", "d", " ",
      "t", "h", "r", "e", "a", "d", "i", "n", "g", "<", "/", "p", ">", "<", "/", "d", "i", "v", ">", "<",
      "d", "i", "v", " ", "c", "l", "a", "s", "s", "=", "\"", "f", "e", "a", "t", "u", "r", "e", "-", "c",
      "a", "r", "d", "\"", ">", "<", "h", "3", ">", "xF0", "x9F", "x8C", "x90", " ", "N", "e", "t", "w", "o", "r",
      "k", " ", "P", "r", "o", "g", "r", "a", "m", "m", "i", "n", "g", "<", "/", "h", "3", ">", "<", "p",
      ">", "M", "a", "s", "t", "e", "r", " ", "s", "o", "c", "k", "e", "t", " ", "p", "r", "o", "g", "r",
      "a", "m", "m", "i", "n", "g", ",", " ", "H", "T", "T", "P", " ", "p", "r", "o", "t", "o", "c", "o",
      "l", ",", " ", "a", "n", "d", " ", "s", "e", "r", "v", "e", "r", " ", "a", "r", "c", "h", "i", "t",
      "e", "c", "t", "u", "r", "e", "<", "/", "p", ">", "<", "/", "d", "i", "v", ">", "<", "d", "i", "v",
      " ", "c", "l", "a", "s", "s", "=", "\"", "f", "e", "a", "t", "u", "r", "e", "-", "c", "a", "r", "d",
      "\"", ">", "<", "h", "3", ">", "xF0", "x9F", "x9A", "x80", " ", "P", "r", "o", "d", "u", "c", "t", "i", "o",
      "n", " ", "R", "e", "a", "d", "y", "<", "/", "h", "3", ">", "<", "p", ">", "B", "u", "i", "l", "d",
      " ", "s", "c", "a", "l", "a", "b", "l", "e", ",", " ", "m", "a", "i", "n", "t", "a", "i", "n", "a",
      "b", "l", "e", " ", "s", "e", "r", "v", "e", "r", "s", " ", "s", "u", "i", "t", "a", "b", "l", "e",
      " ", "f", "o", "r", " ", "r", "e", "a", "l", "-", "w", "o", "r", "l", "d", " ", "u", "s", "e", "<",
      "/", "p", ">", "<", "/", "d", "i", "v", ">", "<", "/", "d", "i", "v", ">", "<", "d", "i", "v", " ",
      "c", "l", "a", "s", "s", "=", "\"", "c", "o", "u", "r", "s", "e", "-", "o", "v", "e", "r", "v", "i",
      "e", "w", "\"", ">", "<", "h", "2", ">", "C", "o", "u", "r", "s", "e", " ", "M", "o", "d", "u", "l",
      "e", "s", "<", "/", "h", "2", ">", "<", "d", "i", "v", " ", "c", "l", "a", "s", "s", "=", "\"", "m",
      "o", "d", "u", "l", "e", "-", "l", "i", "s", "t", "\"", ">", "<", "d", "i", "v", " ", "c", "l", "a",
      "s", "s", "=", "\"", "m", "o", "d", "u", "l", "e", "-", "i", "t", "e", "m", "\"", ">", "<", "h", "3",
      ">", "1", ".", " ", "F", "u", "n", "d", "a", "m", "e", "n", "t", "a", "l", "s", "<", "/", "h", "3",
      ">", "<", "p", ">", "S", "o", "c", "k", "e", "t", " ", "p", "r", "o", "g", "r", "a", "m", "m", "i",
      "n", "g", ",", " ", "H", "T", "T", "P", " ", "b", "a", "s", "i", "c", "s", ",", " ", "t", "h", "r",
      "e", "a", "d", "i", "n", "g", " ", "c", "o", "n", "c", "e", "p", "t", "s", "<", "/", "p", ">", "<",
      "a", " ", "h", "r", "e", "f", "=", "\"", "/", "c", "o", "u", "r", "s", "e", "/", "f", "u", "n", "d",
      "a", "m", "e", "n", "t", "a", "l", "s", "/", "i", "n", "t", "r", "o", "d", "u", "c", "t", "i", "o",
      "n", "\"", " ", "c", "l", "a", "s", "s", "=", "\"", "m", "o", "d", "u", "l", "e", "-", "l", "i", "n",
      "k", "\"", ">", "S", "t", "a", "r", "t", " ", "M", "o", "d", "u", "l", "e", " ", "xE2", "x86", "x92", "<",
      "/", "a", ">", "<", "/", "d", "i", "v", ">", "<", "d", "i", "v", " ", "c", "l", "a", "s", "s", "=",
      "\"", "m", "o", "d", "u", "l", "e", "-", "i", "t", "e", "m", "\"", ">", "<", "h", "3", ">", "2", ".",
      " ", "B", "u", "i", "l", "d", "i", "n", "g", " ", "B", "l", "o", "c", "k", "s", "<", "/", "h", "3",
      ">", "<", "p", ">", "S", "e", "r", "v", "e", "r", " ", "c", "l", "a", "s", "s", " ", "d", "e", "s",
      "i", "g", "n", ",", " ", "r", "o", "u", "t", "e", " ", "h", "a", "n", "d", "l", "i", "n", "g", ",",
      " ", "r", "e", "q", "u", "e", "s", "t", " ", "p", "a", "r", "s", "i", "n", "g", "<", "/", "p", ">",
      "<", "a", " ", "h", "r", "e", "f", "=", "\"", "/", "c", "o", "u", "r", "s", "e", "/", "b", "u", "i",
      "l", "d", "i", "n", "g", "-", "b", "l", "o", "c", "k", "s", "/", "s", "e", "r", "v", "e", "r", "-",
      "c", "l", "a", "s", "s", "\"", " ", "c", "l", "a", "s", "s", "=", "\"", "m", "o", "d", "u", "l", "e",
      "-", "l", "i", "n", "k", "\"", ">", "S", "t", "a", "r", "t", " ", "M", "o", "d", "u", "l", "e", " ",
      "xE2", "x86", "x92", "<", "/", "a", ">", "<", "/", "d", "i", "v", ">", "<", "d", "i", "v", " ", "c", "l",
      "a", "s", "s", "=", "\"", "m", "o", "d", "u", "l", "e", "-", "i", "t", "e", "m", "\"", ">", "<", "h",
      "3", ">", "3", ".", " ", "A", "d", "v", "a", "n", "c", "e", "d", " ", "F", "e", "a", "t", "u", "r",
      "e", "s", "<", "/", "h", "3", ">", "<", "p", ">", "D", "a", "t", "a", "b", "a", "s", "e", " ", "i",
      "n", "t", "e", "g", "r", "a", "t", "i", "o", "n", ",", " ", "a", "u", "t", "h", "e", "n", "t", "i",
      "c", "a", "t", "i", "o", "n", ",", " ", "e", "r", "r", "o", "r", " ", "h", "a", "n", "d", "l", "i",
      "n", "g", "<", "/", "p", ">", "<", "a", " ", "h", "r", "e", "f", "=", "\"", "/", "c", "o", "u", "r",
      "s", "e", "/", "a", "d", "v", "a", "n", "c", "e", "d", "-", "f", "e", "a", "t", "u", "r", "e", "s",
      "/", "d", "a", "t", "a", "b", "a", "s", "e", "-", "i", "n", "t", "e", "g", "r", "a", "t", "i", "o",
      "n", "\"", " ", "c", "l", "a", "s", "s", "=", "\"", "m", "o", "d", "u", "l", "e", "-", "l", "i", "n",
      "k", "\"", ">", "S", "t", "a", "r", "t", " ", "M", "o", "d", "u", "l", "e", " ", "xE2", "x86", "x92", "<",
      "/", "a", ">", "<", "/", "d", "i", "v", ">", "<", "d", "i", "v", " ", "c", "l", "a", "s", "s", "=",
      "\"", "m", "o", "d", "u", "l", "e", "-", "i", "t", "e", "m", "\"", ">", "<", "h", "3", ">", "4", ".",
      " ", "D", "e", "p", "l", "o", "y", "m", "e", "n", "t", "<", "/", "h", "3", ">", "<", "p", ">", "P",
      "r", "o", "d", "u", "c", "t", "i", "o", "n", " ", "s", "e", "t", "u", "p", ",", " ", "m", "o", "n",
      "i", "t", "o", "r", "i", "n", "g", ",", " ", "s", "c", "a", "l", "i", "n", "g", ",", " ", "s", "e",
      "c", "u", "r", "i", "t", "y", "<", "/", "p", ">", "<", "a", " ", "h", "r", "e", "f", "=", "\"", "/",
      "c", "o", "u", "r", "s", "e", "/", "d", "e", "p", "l", "o", "y", "m", "e", "n", "t", "/", "p", "r",
      "o", "d", "u", "c", "t", "i", "o", "n", "-", "s", "e", "t", "u", "p", "\"", " ", "c", "l", "a", "s",
      "s", "=", "\"", "m", "o", "d", "u", "l", "e", "-", "l", "i", "n", "k", "\"", ">", "S", "t", "a", "r",
      "t", " ", "M", "o", "d", "u", "l", "e", " ", "xE2", "x86", "x92", "<", "/", "a", ">", "<", "/", "d", "i",
      "v", ">", "<", "/", "d", "i", "v", ">", "<", "/", "d", "i", "v", ">">>

\* now is what system_clock::now() returns, in seconds since the epoch.
handleHealth(now) ==
  <<"{", "\"", "s", "t", "a", "t", "u", "s", "\"", ":", " ", "\"", "h", "e", "a", "l", "t", "h", "y", "\"",
      ",", "\"", "t", "i", "m", "e", "s", "t", "a", "m", "p", "\"", ":", " ">>
  \o IntToStr(now)
  \o <<",", "\"", "u", "p", "t", "i", "m", "e", "\"", ":", " ", "\"", "r", "u", "n", "n", "i", "n", "g", "\"",
      ",", "\"", "v", "e", "r", "s", "i", "o", "n", "\"", ":", " ", "\"", "1", ".", "0", ".", "0", "\"", ",",
      "\"", "c", "o", "u", "r", "s", "e", "\"", ":", " ", "\"", "C", "+", "+", " ", "S", "e", "r", "v", "e",
      "r", " ", "D", "e", "v", "e", "l", "o", "p", "m", "e", "n", "t", "\"", ",", "\"", "m", "o", "d", "u",
      "l", "e", "s", "\"", ":", " ", "4", ",", "\"", "l", "e", "s", "s", "o", "n", "s", "\"", ":", " ", "1",
      "6", "}">>

handleUsers ==
  <<"{", "\"", "s", "u", "c", "c", "e", "s", "s", "\"", ":", " ", "t", "r", "u", "e", ",", "\"", "c", "o",
      "u", "n", "t", "\"", ":", " ", "3", ",", "\"", "u", "s", "e", "r", "s", "\"", ":", " ", "[", "{", "\"",
      "i", "d", "\"", ":", " ", "\"", "1", "\"", ",", " ", "\"", "n", "a", "m", "e", "\"", ":", " ", "\"", "J",
      "o", "h", "n", " ", "D", "o", "e", "\"", ",", " ", "\"", "e", "m", "a", "i", "l", "\"", ":", " ", "\"",
      "j", "o", "h", "n", "@", "e", "x", "a", "m", "p", "l", "e", ".", "c", "o", "m", "\"", ",", " ", "\"",
      "a", "g", "e", "\"", ":", " ", "3", "0", "}", ",", "{", "\"", "i", "d", "\"", ":", " ", "\"", "2", "\"",
      ",", " ", "\"", "n", "a", "m", "e", "\"", ":", " ", "\"", "J", "a", "n", "e", " ", "S", "m", "i", "t",
      "h", "\"", ",", " ", "\"", "e", "m", "a", "i", "l", "\"", ":", " ", "\"", "j", "a", "n", "e", "@", "e",
      "x", "a", "m", "p", "l", "e", ".", "c", "o", "m", "\"", ",", " ", "\"", "a", "g", "e", "\"", ":", " ",
      "2", "5", "}", ",", "{", "\"", "i", "d", "\"", ":", " ", "\"", "3", "\"", ",", " ", "\"", "n", "a", "m",
      "e", "\"", ":", " ", "\"", "B", "o", "b", " ", "J", "o", "h", "n", "s", "o", "n", "\"", ",", " ", "\"",
      "e", "m", "a", "i", "l", "\"", ":", " ", "\"", "b", "o", "b", "@", "e", "x", "a", "m", "p", "l", "e",
      ".", "c", "o", "m", "\"", ",", " ", "\"", "a", "g", "e", "\"", ":", " ", "3", "5", "}", "]", "}">>

handleUserById ==
  <<"{", "\"", "s", "u", "c", "c", "e", "s", "s", "\"", ":", " ", "t", "r", "u", "e", ",", "\"", "u", "s",
      "e", "r", "\"", ":", " ", "{", "\"", "i", "d", "\"", ":", " ", "\"", "1", "\"", ",", " ", "\"", "n", "a",
      "m", "e", "\"", ":", " ", "\"", "J", "o", "h", "n", " ", "D", "o", "e", "\"", ",", " ", "\"", "e", "m",
      "a", "i", "l", "\"", ":", " ", "\"", "j", "o", "h", "n", "@", "e", "x", "a", "m", "p", "l", "e", ".",
      "c", "o", "m", "\"", ",", " ", "\"", "a", "g", "e", "\"", ":", " ", "3", "0", "}", "}">>

\* The route handlers of main.cpp, by name.
Handlers == {"handleRoot", "handleHealth", "handleUsers", "handleUserById"}

\* pathIt->second(body, headers): the handlers ignore both arguments.
CallHandler(handler, body, headers, now) ==
  CASE handler = "handleRoot" -> handleRoot
    [] handler = "handleHealth" -> handleHealth(now)
    [] handler = "handleUsers" -> handleUsers
    [] handler = "handleUserById" -> handleUserById

\* addRoute(): routes_[method][path] = handler.
addRoute(routes, method, path, handler) ==
  MapPut(routes, method, MapPut(IF method \in DOMAIN routes THEN routes[method] ELSE <<>>, path, handler))

\* The addRoute calls of main(), in order.
MainRoutes ==
  <<<<<<"G", "E", "T">>, <<"/">>, "handleRoot">>,
    <<<<"G", "E", "T">>, <<"/", "h", "e", "a", "l", "t", "h">>, "handleHealth">>,
    <<<<"G", "E", "T">>, <<"/", "a", "p", "i", "/", "u", "s", "e", "r", "s">>, "handleUsers">>,
    <<<<"G", "E", "T">>, <<"/", "a", "p", "i", "/", "u", "s", "e", "r", "s", "/", "1">>, "handleUserById">>,
    <<<<"G", "E", "T">>, <<"/", "a", "p", "i", "/", "u", "s", "e", "r", "s", "/", "2">>, "handleUserById">>,
    <<<<"G", "E", "T">>, <<"/", "a", "p", "i", "/", "u", "s", "e", "r", "s", "/", "3">>, "handleUserById">>>>

\* -------------------------------------------------------- parseHttpRequest()
\* The end of the word that operator>> extracts from position p.
WordEnd(line, p) == Min({q \in p..(Len(line) - 1) : IsSpace(At(line, q))} \cup {IF p > Len(line) THEN p ELSE Len(line)})

\* lineStream >> method >> path: two white-space separated words, each empty
\* when the line has no more words.
RequestLine(line) ==
  LET words(methodStart, methodEnd, pathStart) ==
        [method |-> SubSeq(line, methodStart + 1, methodEnd),
         path |-> SubSeq(line, pathStart + 1, WordEnd(line, pathStart))]
      second(methodStart, methodEnd) == words(methodStart, methodEnd, SkipSpaces(line, methodEnd))
      first(methodStart) == second(methodStart, WordEnd(line, methodStart))
  IN first(SkipSpaces(line, 0))

RECURSIVE ParseHeaders(_, _, _)
\* The header loop from line i on: the headers map and the index of the first
\* line after the line that ended the loop.
ParseHeaders(lines, i, headers) ==
  IF i > Len(lines) THEN [headers |-> headers, next |-> i]
  ELSE IF lines[i] = <<"\r">> \/ lines[i] = <<>> THEN [headers |-> headers, next |-> i + 1]
  ELSE LET line == lines[i]
           colonPos == Find(line, <<":">>, 0)
           value == SubStrFrom(line, colonPos + 1)
       IN IF colonPos # npos
            THEN ParseHeaders(lines, i + 1,
                   MapPut(headers, SubStr(line, 0, colonPos),
                          IF value # <<>> /\ value[Len(value)] = "\r" THEN SubSeq(value, 1, Len(value) - 1) ELSE value))
            ELSE ParseHeaders(lines, i + 1, headers)

parseHttpRequest(request) ==
  LET build(lines, first, parsed) ==
        [method |-> first.method, path |-> first.path, headers |-> parsed.headers,
         body |-> Concat([k \in 1..(Len(lines) + 1 - parsed.next) |-> lines[parsed.next + k - 1] \o <<"\n">>])]
      parse(lines) ==
        build(lines,
              IF lines = <<>> THEN [method |-> <<>>, path |-> <<>>] ELSE RequestLine(lines[1]),
              ParseHeaders(lines, 2, <<>>))
  IN parse(GetLines(request, "\n"))

\* ------------------------------------------------------------ handleClient()
\* char buffer[4096]
BufferSize == 4096

\* What recv(clientSocket, buffer, sizeof(buffer) - 1, 0) stores of the bytes
\* the client sent.
Received(sent) == SubSeq(sent, 1, IF Len(sent) > BufferSize - 1 THEN BufferSize - 1 ELSE Len(sent))

\* `path.find("/course/") == 0`: the path starts with the content prefix.
IsCoursePath(path) == Find(path, <<"/", "c", "o", "u", "r", "s", "e", "/">>, 0) = 0

\* A server that has no branch for static files.
NeverStaticPath(path) == FALSE

\* `path.find("/css/") == 0 || path.find("/js/") == 0`: the path starts with a
\* static-asset prefix.
IsStaticPath(path) == Find(path, <<"/", "c", "s", "s", "/">>, 0) = 0 \/ Find(path, <<"/", "j", "s", "/">>, 0) = 0

\* A lookup key that leaves out a query string.
RouteKeyWithoutQuery(path) == IF Find(path, <<"?">>, 0) = npos THEN path ELSE SubStr(path, 0, Find(path, <<"?">>, 0))

\* methodIt->second.find(path): the key looked up is the request path as it
\* was parsed, compared with operator== of std::string.
RouteKey(path) == path

\* The body of `if (bytesRead > 0)` up to createHttpResponse: the status,
\* content type and body chosen for the request in the buffer, what the
\* lookups leave in the catalog, and the route handler that was called ("none"
\* when the request did not reach one).
Routed(buffer, now) ==
  LET page(module, lesson) ==
        [statusCode |-> 200, contentType |-> <<"t", "e", "x", "t", "/", "h", "t", "m", "l">>,
         responseBody |-> generateCoursePage(module, lesson),
         modules |-> ModulesAfterFind(modules_, module), handler |-> "none"]
      split(coursePath, slashPos) ==
        IF slashPos # npos
          THEN page(SubStr(coursePath, 0, slashPos), SubStrFrom(coursePath, slashPos + 1))
          ELSE [statusCode |-> 400, contentType |-> <<"t", "e", "x", "t", "/", "p", "l", "a", "i", "n">>,
                responseBody |-> <<"I", "n", "v", "a", "l", "i", "d", " ", "c", "o", "u", "r", "s", "e", " ", "p", "a", "t", "h">>, modules |-> modules_, handler |-> "none"]
      course(coursePath) == split(coursePath, Find(coursePath, <<"/">>, 0))
      static(path, fileBody) ==
        [statusCode |-> IF fileBody = <<"F", "i", "l", "e", " ", "n", "o", "t", " ", "f", "o", "u", "n", "d">> THEN 404 ELSE 200,
         contentType |-> getMimeType(path), responseBody |-> fileBody, modules |-> modules_, handler |-> "none"]
      found(method, path, handled) ==
        IF path = <<"/">>
          THEN [statusCode |-> 200, contentType |-> <<"t", "e", "x", "t", "/", "h", "t", "m", "l">>,
                responseBody |-> generateHTML(<<"C", "+", "+", " ", "S", "e", "r", "v", "e", "r", " ", "D", "e", "v", "e", "l", "o", "p", "m", "e",
      "n", "t", " ", "C", "o", "u", "r", "s", "e">>, handled),
                modules |-> modules_, handler |-> routes_[method][RouteKey(path)]]
          ELSE [statusCode |-> 200,
                contentType |-> IF path = <<"/", "h", "e", "a", "l", "t", "h">> \/ Find(path, <<"/", "a", "p", "i", "/">>, 0) = 0
                                  THEN <<"a", "p", "p", "l", "i", "c", "a", "t", "i", "o", "n", "/", "j", "s", "o", "n">> ELSE <<"t", "e", "x", "t", "/", "p", "l", "a", "i", "n">>,
                responseBody |-> handled, modules |-> modules_, handler |-> routes_[method][RouteKey(path)]]
      route(method, path, body, headers) ==
        IF IsCoursePath(path) THEN course(SubStrFrom(path, 8))
        ELSE IF IsStaticPath(path)
          THEN static(path, serveStaticFile(path))
        ELSE IF method \in DOMAIN routes_
          THEN IF RouteKey(path) \in DOMAIN routes_[method]
                 THEN found(method, path, CallHandler(routes_[method][RouteKey(path)], body, headers, now))
                 ELSE [statusCode |-> 404, contentType |-> <<"t", "e", "x", "t", "/", "p", "l", "a", "i", "n">>, responseBody |-> <<"N", "o", "t", " ", "F", "o", "u", "n", "d">>,
                       modules |-> modules_, handler |-> "none"]
          ELSE [statusCode |-> 405, contentType |-> <<"t", "e", "x", "t", "/", "p", "l", "a", "i", "n">>, responseBody |-> <<"M", "e", "t", "h", "o", "d", " ", "N", "o", "t", " ", "A", "l", "l", "o", "w", "e", "d">>,
                modules |-> modules_, handler |-> "none"]
      request(req) == route(req.method, req.path, req.body, req.headers)
  IN request(parseHttpRequest(buffer))

\* handleClient() from the parse to the bytes it passes to send().
handleClient(buffer, now) ==
  LET respond(r) ==
        [statusCode |-> r.statusCode, contentType |-> r.contentType, responseBody |-> r.responseBody,
         modules |-> r.modules, handler |-> r.handler,
         response |-> createHttpResponse(r.statusCode, r.contentType, r.responseBody)]
  IN respond(Routed(buffer, now))

\* --------------------------------------------------------------- clients
\* A request as a client writes it.
RequestText(method, path) == method \o <<" ">> \o path \o <<" ", "H", "T", "T", "P", "/", "1", ".", "1", "\r", "\n", "H", "o", "s", "t", ":", " ", "l", "o", "c",
      "a", "l", "h", "o", "s", "t", "\r", "\n", "\r", "\n">>

GetHealth == RequestText(<<"G", "E", "T">>, <<"/", "h", "e", "a", "l", "t", "h">>)

GetUsers == RequestText(<<"G", "E", "T">>, <<"/", "a", "p", "i", "/", "u", "s", "e", "r", "s">>)

GetUser == RequestText(<<"G", "E", "T">>, <<"/", "a", "p", "i", "/", "u", "s", "e", "r", "s", "/", "1">>)

GetLesson == RequestText(<<"G", "E", "T">>, <<"/", "c", "o", "u", "r", "s", "e", "/", "f", "u", "n", "d", "a", "m", "e", "n", "t", "a", "l", "s",
      "/", "i", "n", "t", "r", "o", "d", "u", "c", "t", "i", "o", "n">>)

GetNoModule == RequestText(<<"G", "E", "T">>, <<"/", "c", "o", "u", "r", "s", "e", "/", "n", "o", "w", "h", "e", "r", "e", "/", "n", "o", "t", "h", "i", "n", "g">>)

GetStyle == RequestText(<<"G", "E", "T">>, <<"/", "c", "s", "s", "/", "s", "t", "y", "l", "e", ".", "c", "s", "s">>)

PostNothing == RequestText(<<"P", "O", "S", "T">>, <<"/", "n", "o", "t", "h", "i", "n", "g">>)

\* What clients send while the life cycle of the server is explored.
LifecycleRequests == {GetUser}

\* What clients send to a started server.
Requests == {GetHealth, GetUsers, GetLesson, GetNoModule, GetStyle, PostNothing}

\* The readings of the system clock, in seconds since the epoch.
Clock == {1793491200, 1793491201}

\* --------------------------------------------------------- operating system
\* A socket id that socket() has not handed out yet (ids are never reused in
\* the model, so that a second close of the same socket is visible).
FreshSocket == CHOOSE s \in SocketIds : sockets[s].state = "unused" /\ \A r \in SocketIds : sockets[r].state = "unused" => s <= r

HasFreshSocket == \E s \in SocketIds : sockets[s].state = "unused"

OpenSockets == {s \in SocketIds : sockets[s].state \in {"created", "listening"}}

\* close(fd) by cleanupSocket: the descriptor is released and the close is counted.
CloseSocket(socks, s) == [socks EXCEPT ![s] = [state |-> "closed", closes |-> @.closes + 1]]

\* The accept-loop threads blocked in accept() on socket s.
BlockedOn(s) == {t \in ThreadIds : loops[t].pc = "accept" /\ loops[t].fd = s}

FreshThread == CHOOSE t \in ThreadIds : loops[t].pc = "unborn" /\ \A r \in ThreadIds : loops[r].pc = "unborn" => t <= r

HasFreshThread == \E t \in ThreadIds : loops[t].pc = "unborn"

FreshConn == CHOOSE c \in ConnIds : workers[c].pc = "unborn" /\ \A r \in ConnIds : workers[r].pc = "unborn" => c <= r

HasFreshConn == \E c \in ConnIds : workers[c].pc = "unborn"

LiveLoops == {t \in ThreadIds : loops[t].pc \in {"loop", "call", "accept"}}

\* ------------------------------------------------------------------ Init
NoProbe == [kind |-> "none"]

\* A worker thread that does not exist yet.
NoWorker == [pc |-> "unborn", sent |-> <<>>, response |-> <<>>]

\* initializeCourseContent() on disk d: the catalog the constructor leaves.
Loaded(d) ==
  \E load \in {loadAllLessons(d)} :
     /\ disk = d
     /\ modules_ = load.modules
     /\ moduleOrder_ = load.moduleOrder
     /\ renderLog = load.rendered
     /\ courseModules_ = initializeCourseContent(load)

\* HttpServer::HttpServer: port_(port), serverSocket_(-1), running_(false),
\* then initializeCourseContent(), on a machine with one of the disks.
Constructed(disks) ==
  /\ running_ = FALSE
  /\ serverSocket_ = -1
  /\ acceptThread_ = 0
  /\ caller = [op |-> "none", pc |-> "idle"]
  /\ sockets = [s \in SocketIds |-> [state |-> "unused", closes |-> 0]]
  /\ loops = [t \in ThreadIds |-> [pc |-> "unborn", fd |-> -1, wake |-> FALSE, hist |-> "fresh"]]
  /\ workers = [c \in ConnIds |-> NoWorker]
  /\ \E d \in disks : Loaded(d)
  /\ routes_ = <<>>
  /\ buffers = [c \in ConnIds |-> <<>>]
  /\ probe = NoProbe

\* The server of main() on a machine without a lessons directory.
Init == Constructed({NoLessons})

\* ------------------------------------------------------------- addRoute()
\* How many of main()'s routes are registered.
Registered == Cardinality({i \in 1..Len(MainRoutes) :
                             /\ MainRoutes[i][1] \in DOMAIN routes_
                             /\ MainRoutes[i][2] \in DOMAIN routes_[MainRoutes[i][1]]})

\* The registration main() makes next, if any is left.
MainNext == IF Registered < Len(MainRoutes) THEN {MainRoutes[Registered + 1]} ELSE {}

\* The registrations tried on a server of its own: two handlers under two
\* methods and two paths, and a handler for a static file and for a lesson.
AnyRoute == {<<method, path, handler>> : method \in {<<"G", "E", "T">>, <<"P", "O", "S", "T">>},
                                         path \in {<<"/", "h", "e", "a", "l", "t", "h">>, <<"/", "a", "p", "i", "/", "u", "s", "e", "r", "s">>},
                                         handler \in {"handleHealth", "handleUsers"}}
            \cup {<<<<"G", "E", "T">>, <<"/", "c", "s", "s", "/", "s", "t", "y", "l", "e", ".", "c", "s", "s">>, "handleUsers">>,
                  <<<<"P", "O", "S", "T">>, <<"/", "c", "o", "u", "r", "s", "e", "/", "f", "u", "n", "d", "a", "m", "e", "n", "t", "a", "l", "s",
      "/", "i", "n", "t", "r", "o", "d", "u", "c", "t", "i", "o", "n">>, "handleHealth">>}

\* server.addRoute(method, path, handler), called before the server is started.
AddRoute(registrations) ==
  /\ caller.pc = "idle"
  /\ caller.op = "none"
  /\ \E r \in registrations : routes_' = addRoute(routes_, r[1], r[2], r[3])
  /\ UNCHANGED <<running_, serverSocket_, acceptThread_, caller, sockets, loops, workers>>
  /\ UNCHANGED <<modules_, moduleOrder_, courseModules_, renderLog, disk, buffers, probe>>

\* ------------------------------------------------------------ start()
\* A start() that has lost its guard (used to show what the guard is for).
StartGuardMissing(isRunning) == FALSE

\* start(): `if (running_) return;` -- the guard that makes a second start a no-op.
StartGuard(isRunning) == isRunning

\* start() is called, after the registrations of main(); when the server is
\* already running it returns at once.
StartCall ==
  /\ caller.pc = "idle"
  /\ caller.op # "dtor"
  /\ MainNext = {}
  /\ IF StartGuard(running_)
       THEN caller' = [op |-> "start_again", pc |-> "idle"]
       ELSE caller' = [op |-> "start", pc |-> "start_init"]
  /\ UNCHANGED <<running_, serverSocket_, acceptThread_, sockets, loops, workers, site>>

\* initializeSocket(): socket() fails; serverSocket_ is assigned -1 and start() returns.
InitSocketNoSocket ==
  /\ caller.pc = "start_init"
  /\ serverSocket_' = -1
  /\ caller' = [caller EXCEPT !.pc = "idle"]
  /\ UNCHANGED <<running_, acceptThread_, sockets, loops, workers, site>>

\* What initializeSocket() leaves in serverSocket_ and in the operating system
\* when setsockopt, bind or listen fails on the socket s it has just created:
\* it returns false without closing s.
InitSocketFailure(socks, s) == [fd |-> s, socks |-> [socks EXCEPT ![s].state = "created"]]

\* initializeSocket(): socket() succeeds, then setsockopt, bind or listen fails.
InitSocketFail ==
  /\ caller.pc = "start_init"
  /\ HasFreshSocket
  /\ LET r == InitSocketFailure(sockets, FreshSocket)
     IN /\ serverSocket_' = r.fd
        /\ sockets' = r.socks
  /\ caller' = [caller EXCEPT !.pc = "idle"]
  /\ UNCHANGED <<running_, acceptThread_, loops, workers, site>>

\* initializeSocket(): socket, setsockopt, bind and listen all succeed.
InitSocketOk ==
  /\ caller.pc = "start_init"
  /\ HasFreshSocket
  /\ HasFreshThread
  /\ serverSocket_' = FreshSocket
  /\ sockets' = [sockets EXCEPT ![FreshSocket].state = "listening"]
  /\ caller' = [caller EXCEPT !.pc = "start_run"]
  /\ UNCHANGED <<running_, acceptThread_, loops, workers, site>>

\* start(): running_ = true.
StartSetRunning ==
  /\ caller.pc = "start_run"
  /\ running_' = TRUE
  /\ caller' = [caller EXCEPT !.pc = "start_spawn"]
  /\ UNCHANGED <<serverSocket_, acceptThread_, sockets, loops, workers, site>>

\* start(): acceptThread_ = std::thread(&HttpServer::acceptConnections, this).
StartSpawn ==
  /\ caller.pc = "start_spawn"
  /\ acceptThread_' = FreshThread
  /\ loops' = [loops EXCEPT ![FreshThread].pc = "loop"]
  /\ caller' = [caller EXCEPT !.pc = "idle"]
  /\ UNCHANGED <<running_, serverSocket_, sockets, workers, site>>

\* ------------------------------------------------------------- stop()
\* stop() is called (op = "stop"), or the destructor calls it (op = "dtor").
\* `if (running_) {...}`: on a server that is not running stop() does nothing.
StopCall(op) ==
  /\ caller.pc = "idle"
  /\ caller.op # "dtor"
  /\ IF running_
       THEN caller' = [op |-> op, pc |-> "stop_clear"]
       ELSE caller' = [op |-> op, pc |-> IF op = "dtor" THEN "destroyed" ELSE "idle"]
  /\ UNCHANGED <<running_, serverSocket_, acceptThread_, sockets, loops, workers, site>>

\* A stop() that goes on to cleanupSocket() with the flag still set.
StopKeepsRunning ==
  /\ caller.pc = "stop_clear"
  /\ caller' = [caller EXCEPT !.pc = "stop_cleanup"]
  /\ UNCHANGED <<running_, serverSocket_, acceptThread_, sockets, loops, workers, site>>

\* stop(): running_ = false.
StopClear ==
  /\ caller.pc = "stop_clear"
  /\ running_' = FALSE
  /\ caller' = [caller EXCEPT !.pc = "stop_cleanup"]
  /\ UNCHANGED <<serverSocket_, acceptThread_, sockets, loops, workers, site>>

\* Whether close() of a listening socket makes an accept() that another thread
\* is blocked in return. The code relies on it; POSIX leaves it unspecified
\* (Windows' closesocket and the BSDs abort the call, Linux leaves the call
\* blocked on the still-referenced socket until a connection arrives), so
\* both outcomes are possible.
CloseWakesAccept == BOOLEAN

\* cleanupSocket(): `if (serverSocket_ != -1) close(serverSocket_);`
CleanupClose ==
  /\ caller.pc = "stop_cleanup"
  /\ IF serverSocket_ # -1
       THEN /\ sockets' = CloseSocket(sockets, serverSocket_)
            /\ \E w \in CloseWakesAccept :
                 loops' = [t \in ThreadIds |->
                             IF t \in BlockedOn(serverSocket_)
                               THEN [loops[t] EXCEPT !.wake = w]
                               ELSE loops[t]]
            /\ caller' = [caller EXCEPT !.pc = "stop_reset"]
       ELSE /\ caller' = [caller EXCEPT !.pc = "stop_join"]
            /\ UNCHANGED <<sockets, loops>>
  /\ UNCHANGED <<running_, serverSocket_, acceptThread_, workers, site>>

\* cleanupSocket(): serverSocket_ = -1.
CleanupReset ==
  /\ caller.pc = "stop_reset"
  /\ serverSocket_' = -1
  /\ caller' = [caller EXCEPT !.pc = "stop_join"]
  /\ UNCHANGED <<running_, acceptThread_, sockets, loops, workers, site>>

\* A join that would also wait for every worker to finish.
JoinReadyAlsoWorkers(t, ls, ws) == ls[t].pc = "done" /\ \A c \in DOMAIN ws : ws[c].pc \in {"unborn", "done"}

\* What acceptThread_.join() waits for: the accept-loop thread t has ended.
\* Nothing else is waited for; the detached workers ws are not looked at.
JoinReady(t, ls, ws) == ls[t].pc = "done"

\* stop(): `if (acceptThread_.joinable()) acceptThread_.join();` and return.
StopJoin ==
  /\ caller.pc = "stop_join"
  /\ acceptThread_ # 0 => JoinReady(acceptThread_, loops, workers)
  /\ acceptThread_' = 0
  /\ caller' = [caller EXCEPT !.pc = IF caller.op = "dtor" THEN "destroyed" ELSE "idle"]
  /\ UNCHANGED <<running_, serverSocket_, sockets, loops, workers, site>>

\* ------------------------------------------------- acceptConnections()
\* `while (running_)`: what the loop does next when it tests the flag.
LoopTest(isRunning) == IF isRunning THEN "call" ELSE "done"

LoopCheck(t) ==
  /\ loops[t].pc = "loop"
  /\ loops' = [loops EXCEPT ![t].pc = LoopTest(running_),
                            ![t].hist = IF LoopTest(running_) = "done" THEN "fresh" ELSE @]
  /\ UNCHANGED <<running_, serverSocket_, acceptThread_, caller, sockets, workers, site>>

\* A loop that would `break` where the code says `continue`.
AfterAcceptFailureBreak == "done"

\* Where the loop goes after accept() returned a negative value: `continue`.
AfterAcceptFailure == "loop"

\* accept(serverSocket_, ...) is called: on an invalid descriptor (-1, or one
\* already closed) it fails at once; otherwise the thread blocks on the socket.
AcceptCall(t) ==
  /\ loops[t].pc = "call"
  /\ IF serverSocket_ = -1 \/ sockets[serverSocket_].state # "listening"
       THEN loops' = [loops EXCEPT ![t].pc = AfterAcceptFailure, ![t].hist = "failed"]
       ELSE loops' = [loops EXCEPT ![t].pc = "accept", ![t].fd = serverSocket_, ![t].wake = FALSE]
  /\ UNCHANGED <<running_, serverSocket_, acceptThread_, caller, sockets, workers, site>>

\* accept() returns a connected client socket and the loop hands it to a new
\* detached thread: std::thread clientThread(&HttpServer::handleClient, this,
\* clientSocket); clientThread.detach(). The socket the call blocks on stays
\* referenced by the call, so this can happen even after its descriptor was
\* closed, when the close did not wake the call. The running flag is not
\* tested between accept and the spawn.
AcceptOk(t) ==
  /\ loops[t].pc = "accept"
  /\ ~loops[t].wake
  /\ HasFreshConn
  /\ loops' = [loops EXCEPT ![t].pc = "loop", ![t].fd = -1,
                            ![t].hist = IF @ = "fresh" THEN "fresh" ELSE "recovered"]
  /\ workers' = [workers EXCEPT ![FreshConn].pc = "recv"]
  /\ UNCHANGED <<running_, serverSocket_, acceptThread_, caller, sockets, site>>

\* accept() fails while the socket is open (ECONNABORTED, EMFILE, EINTR, ...).
AcceptFail(t) ==
  /\ loops[t].pc = "accept"
  /\ ~loops[t].wake
  /\ sockets[loops[t].fd].state = "listening"
  /\ loops' = [loops EXCEPT ![t].pc = AfterAcceptFailure, ![t].fd = -1, ![t].hist = "failed"]
  /\ UNCHANGED <<running_, serverSocket_, acceptThread_, caller, sockets, workers, site>>

\* accept() returns an error because its socket was closed under it.
AcceptWoken(t) ==
  /\ loops[t].pc = "accept"
  /\ loops[t].wake
  /\ loops' = [loops EXCEPT ![t].pc = AfterAcceptFailure, ![t].wake = FALSE, ![t].fd = -1, ![t].hist = "failed"]
  /\ UNCHANGED <<running_, serverSocket_, acceptThread_, caller, sockets, workers, site>>

\* ------------------------------------------------------ handleClient()
\* A buffer shared by all calls (a `static char buffer[4096]`).
StaticBuffer(c) == 1

\* The buffer of the call that serves connection c: a local array of the call.
BufferOf(c) == c

\* recv(): the client has sent one of the requests, or nothing (it closed the
\* connection, or the call failed) and the worker goes straight to close().
WorkerRecv(c, requests) ==
  /\ workers[c].pc = "recv"
  /\ \E sent \in requests \cup {<<>>} :
       IF Len(Received(sent)) > 0
         THEN /\ buffers' = [buffers EXCEPT ![BufferOf(c)] = Received(sent)]
              /\ workers' = [workers EXCEPT ![c] = [pc |-> "handle", sent |-> sent, response |-> <<>>]]
         ELSE /\ workers' = [workers EXCEPT ![c].pc = "close"]
              /\ UNCHANGED buffers
  /\ UNCHANGED <<running_, serverSocket_, acceptThread_, caller, sockets, loops>>
  /\ UNCHANGED <<routes_, modules_, moduleOrder_, courseModules_, renderLog, disk, probe>>

\* The request in the buffer is parsed and routed, the response is built and
\* passed to send(); the buffer is not read again.
WorkerRespond(c) ==
  /\ workers[c].pc = "handle"
  /\ \E now \in Clock : \E r \in {handleClient(buffers[BufferOf(c)], now)} :
       /\ workers' = [workers EXCEPT ![c].pc = "close", ![c].response = r.response]
       /\ modules_' = r.modules
  /\ buffers' = [buffers EXCEPT ![BufferOf(c)] = <<>>]
  /\ UNCHANGED <<running_, serverSocket_, acceptThread_, caller, sockets, loops>>
  /\ UNCHANGED <<routes_, moduleOrder_, courseModules_, renderLog, disk, probe>>

\* A worker that keeps the connection open: after the response it goes back
\* to recv() for the next request.
WorkerCloseAndRecvAgain(c) ==
  /\ workers[c].pc = "close"
  /\ workers' = [workers EXCEPT ![c] = [NoWorker EXCEPT !.pc = "recv"]]
  /\ UNCHANGED <<running_, serverSocket_, acceptThread_, caller, sockets, loops, site>>

\* close(clientSocket); the thread ends.
WorkerClose(c) ==
  /\ workers[c].pc = "close"
  /\ workers' = [workers EXCEPT ![c] = [NoWorker EXCEPT !.pc = "done"]]
  /\ UNCHANGED <<running_, serverSocket_, acceptThread_, caller, sockets, loops, site>>

\* ------------------------------------------------- functions on their own
\* The methods and paths of the requests routed against a table of routes.
RequestMethods == {<<"G", "E", "T">>, <<"P", "O", "S", "T">>, <<"D", "E", "L", "E", "T", "E">>}

RequestPaths ==
  {<<"/", "h", "e", "a", "l", "t", "h">>,
   <<"/", "a", "p", "i", "/", "u", "s", "e", "r", "s">>,
   <<"/", "n", "o", "t", "h", "i", "n", "g">>,
   <<"/", "c", "o", "u", "r", "s", "e", "/", "f", "u", "n", "d", "a", "m", "e", "n", "t", "a", "l", "s",
      "/", "i", "n", "t", "r", "o", "d", "u", "c", "t", "i", "o", "n">>,
   <<"/", "c", "s", "s", "/", "s", "t", "y", "l", "e", ".", "c", "s", "s">>,
   <<"/", "H", "e", "a", "l", "t", "h">>,
   <<"/", "h", "e", "a", "l", "t", "h", "/">>,
   <<"/", "h", "e", "a", "l", "t", "h", "?", "x", "=", "1">>}

\* handleClient() applied to one request against the routes registered so far.
ProbeRoute ==
  /\ probe = NoProbe
  /\ \E method \in RequestMethods, path \in RequestPaths, now \in Clock :
       \E r \in {handleClient(Received(RequestText(method, path)), now)} :
         probe' = [kind |-> "route", method |-> method, path |-> path, routes |-> routes_,
                   now |-> now, statusCode |-> r.statusCode, responseBody |-> r.responseBody,
                   handler |-> r.handler]
  /\ UNCHANGED <<running_, serverSocket_, acceptThread_, caller, sockets, loops, workers>>
  /\ UNCHANGED <<routes_, modules_, moduleOrder_, courseModules_, renderLog, disk, buffers>>

RECURSIVE Strings(_, _)
\* The strings of at most n characters from chars.
Strings(chars, n) ==
  IF n = 0 THEN {<<>>}
  ELSE LET shorter == Strings(chars, n - 1)
       IN shorter \cup {Append(s, ch) : s \in shorter, ch \in chars}

\* The status codes handleClient passes to createHttpResponse, and one it never does.
StatusCodes == {200, 400, 404, 405, 500}

\* The content types handleClient and getMimeType produce.
ContentTypes ==
  {<<"t", "e", "x", "t", "/", "p", "l", "a", "i", "n">>,
   <<"t", "e", "x", "t", "/", "h", "t", "m", "l">>,
   <<"t", "e", "x", "t", "/", "c", "s", "s">>,
   <<"a", "p", "p", "l", "i", "c", "a", "t", "i", "o", "n", "/", "j", "a", "v", "a", "s", "c", "r", "i", "p", "t">>,
   <<"a", "p", "p", "l", "i", "c", "a", "t", "i", "o", "n", "/", "j", "s", "o", "n">>}

\* Response bodies: every short string over a letter, CR and LF, and two
\* bodies the handlers produce.
Bodies == Strings({"a", "\r", "\n"}, MaxBodyLen) \cup {handleUsers, handleUserById}

\* createHttpResponse() applied to one status code, content type and body.
ProbeResponse ==
  /\ probe = NoProbe
  /\ \E statusCode \in StatusCodes, contentType \in ContentTypes, body \in Bodies :
       probe' = [kind |-> "response", statusCode |-> statusCode, contentType |-> contentType, body |-> body,
                 response |-> createHttpResponse(statusCode, contentType, body)]
  /\ UNCHANGED <<running_, serverSocket_, acceptThread_, caller, sockets, loops, workers>>
  /\ UNCHANGED <<routes_, modules_, moduleOrder_, courseModules_, renderLog, disk, buffers>>

\* The first lines of the requests written line by line: well formed, without
\* a path, without anything, of white space only, and for a content path
\* without a lesson.
RequestLines ==
  {<<"G", "E", "T", " ", "/", "h", "e", "a", "l", "t", "h", " ", "H", "T", "T", "P", "/", "1", ".", "1", "\r">>, <<"G", "E", "T", " ", "/", "h", "e", "a", "l", "t", "h">>, <<"G", "E", "T", "\r">>, <<"P", "O", "S", "T">>, <<>>, <<"\r">>, <<" ", "\t", "\r">>, <<"G", "E", "T", " ", "/", "c", "o", "u", "r", "s", "e", "/", "f", "u", "n", "d", "a", "m", "e", "n",
      "t", "a", "l", "s", "\r">>}

\* The lines that follow the first line: headers with and without a space
\* after the colon, with two colons, without a name, without a colon, without
\* a carriage return, and the empty line.
HeaderLines ==
  {<<"H", "o", "s", "t", ":", " ", "l", "o", "c", "a", "l", "h", "o", "s", "t", "\r">>, <<"H", "o", "s", "t", ":", "e", "x", "a", "m", "p", "l", "e", "\r">>, <<"A", "c", "c", "e", "p", "t", ":", " ", " ", "a", " ", "b", "\r">>, <<"X", "-", "T", "i", "m", "e", ":", " ", "1", "0", ":", "3", "0">>, <<":", " ", "a", "n", "o", "n", "y", "m", "o", "u", "s", "\r">>, <<"n", "o", " ", "c", "o", "l", "o", "n", " ", "h", "e", "r", "e", "\r">>, <<>>}

RECURSIVE HeaderBlocks(_)
\* The sequences of at most n of these lines.
HeaderBlocks(n) ==
  IF n = 0 THEN {<<>>}
  ELSE LET shorter == HeaderBlocks(n - 1)
       IN shorter \cup {Append(block, line) : block \in shorter, line \in HeaderLines}

\* The bytes of a request: its first line, the lines of the block, an empty
\* line and a line of body, each ended by a line feed.
RawRequest(first, block) ==
  first \o <<"\n">> \o Concat([i \in 1..Len(block) |-> block[i] \o <<"\n">>]) \o <<"\r", "\n">> \o <<"i", "d", "=", "7", "\n">>

\* handleClient() applied to one request written line by line, with what
\* parseHttpRequest() made of it.
ProbeRequest ==
  /\ probe = NoProbe
  /\ \E first \in RequestLines, block \in HeaderBlocks(MaxHeaderLines), now \in Clock :
       \E req \in {parseHttpRequest(Received(RawRequest(first, block)))},
          r \in {handleClient(Received(RawRequest(first, block)), now)} :
         probe' = [kind |-> "request", first |-> first, block |-> block,
                   method |-> req.method, path |-> req.path, headers |-> req.headers, body |-> req.body,
                   statusCode |-> r.statusCode, handler |-> r.handler]
  /\ UNCHANGED <<running_, serverSocket_, acceptThread_, caller, sockets, loops, workers>>
  /\ UNCHANGED <<routes_, modules_, moduleOrder_, courseModules_, renderLog, disk, buffers>>

\* The module names of content requests: those of the catalog, one that is in
\* no catalog and the empty one.
PageModules == DOMAIN courseModules_ \cup {<<"n", "o", "t", "h", "i", "n", "g">>, <<>>}

\* The lesson names of content requests: those of the catalog, one that is in
\* no catalog and the empty one.
PageLessons == UNION {Range(courseModules_[moduleName]) : moduleName \in DOMAIN courseModules_} \cup {<<"m", "i", "s", "s", "i", "n", "g">>, <<>>}

\* handleClient() applied to one content request.
ProbePage ==
  /\ probe = NoProbe
  /\ \E module \in PageModules, lesson \in PageLessons, now \in Clock :
       \E r \in {handleClient(Received(RequestText(<<"G", "E", "T">>, <<"/", "c", "o", "u", "r", "s", "e", "/">> \o module \o <<"/">> \o lesson)), now)} :
         probe' = [kind |-> "page", module |-> module, lesson |-> lesson,
                   statusCode |-> r.statusCode, responseBody |-> r.responseBody, handler |-> r.handler]
  /\ UNCHANGED <<running_, serverSocket_, acceptThread_, caller, sockets, loops, workers>>
  /\ UNCHANGED <<routes_, modules_, moduleOrder_, courseModules_, renderLog, disk, buffers>>

\* generateLessonNavigation() and getPreviousNextLesson() called for one
\* module and lesson.
ProbeNavigation ==
  /\ probe = NoProbe
  /\ \E module \in PageModules, lesson \in PageLessons :
       probe' = [kind |-> "navigation", module |-> module, lesson |-> lesson,
                 prevNext |-> getPreviousNextLesson(module, lesson),
                 navigation |-> generateLessonNavigation(module, lesson)]
  /\ UNCHANGED <<running_, serverSocket_, acceptThread_, caller, sockets, loops, workers>>
  /\ UNCHANGED <<routes_, modules_, moduleOrder_, courseModules_, renderLog, disk, buffers>>

\* The lines of the lesson texts written line by line: the three lines of a
\* pipe table, a blank line and a line of text.
MarkdownLines == {<<"|", " ", "A", " ", "|", " ", "B", " ", "|">>, <<"|", "-", "-", "-", "|", "-", "-", "-", "|">>, <<"|", " ", "1", " ", "|", " ", "2", " ", "|">>, <<>>, <<"t", "e", "x", "t">>}

\* The pieces of the lesson texts written piece by piece: the markers of the
\* renderer, a letter and the end of a line.
MarkdownPieces == {<<Backtick, Backtick, Backtick>>, <<Backtick>>, <<"*", "*">>, <<"|">>, <<"a">>, <<"\n">>}

RECURSIVE Texts(_, _, _)
\* The texts of at most n of the pieces, each followed by end.
Texts(pieces, end, n) ==
  IF n = 0 THEN {<<>>}
  ELSE LET longer(shorter) == shorter \cup {text \o piece \o end : text \in shorter, piece \in pieces}
       IN longer(Texts(pieces, end, n - 1))

\* The lesson texts given to the renderer.
Markdowns == Texts(MarkdownLines, <<"\n">>, MaxMarkdownLines) \cup Texts(MarkdownPieces, <<>>, MaxMarkdownLen)

\* markdownToHtml() applied to one lesson text.
ProbeRender ==
  /\ probe = NoProbe
  /\ \E markdown \in Markdowns :
       probe' = [kind |-> "render", markdown |-> markdown, html |-> markdownToHtml(markdown)]
  /\ UNCHANGED <<running_, serverSocket_, acceptThread_, caller, sockets, loops, workers>>
  /\ UNCHANGED <<routes_, modules_, moduleOrder_, courseModules_, renderLog, disk, buffers>>

\* The paths of static-asset requests: a directory, a file name and an
\* extension, or none, or two.
StaticPaths ==
  {directory \o name \o extension :
     directory \in {<<"/", "c", "s", "s", "/">>, <<"/", "j", "s", "/">>},
     name \in {<<"s", "t", "y", "l", "e">>, <<"a", "p", "p">>, <<"d", "a", "t", "a">>},
     extension \in {<<".", "h", "t", "m", "l">>, <<".", "c", "s", "s">>, <<".", "j", "s">>, <<".", "j", "s", "o", "n">>, <<".", "t", "x", "t">>, <<>>, <<".", "c", "s", "s", ".", "t", "x", "t">>, <<".", "m", "i", "n", ".", "j", "s">>}}

\* handleClient() applied to one static-asset request.
ProbeStatic ==
  /\ probe = NoProbe
  /\ \E method \in RequestMethods, path \in StaticPaths, now \in Clock :
       \E r \in {handleClient(Received(RequestText(method, path)), now)} :
         probe' = [kind |-> "static", method |-> method, path |-> path, statusCode |-> r.statusCode,
                   contentType |-> r.contentType, responseBody |-> r.responseBody, handler |-> r.handler]
  /\ UNCHANGED <<running_, serverSocket_, acceptThread_, caller, sockets, loops, workers>>
  /\ UNCHANGED <<routes_, modules_, moduleOrder_, courseModules_, renderLog, disk, buffers>>

\* ------------------------------------------------------------------ Next
\* The steps inside a call of start(), stop() or the destructor.
CallerProgress ==
  \/ InitSocketNoSocket
  \/ InitSocketFail
  \/ InitSocketOk
  \/ StartSetRunning
  \/ StartSpawn
  \/ StopClear
  \/ CleanupClose
  \/ CleanupReset
  \/ StopJoin

\* The steps of an accept loop that do not wait for a client.
LoopProgress(t) ==
  \/ LoopCheck(t)
  \/ AcceptCall(t)
  \/ AcceptWoken(t)

\* The steps of the worker of connection c, for clients that send `requests`.
WorkerProgress(c, requests) ==
  \/ WorkerRecv(c, requests)
  \/ WorkerRespond(c)
  \/ WorkerClose(c)

Next ==
  \/ AddRoute(MainNext)
  \/ StartCall
  \/ StopCall("stop")
  \/ StopCall("dtor")
  \/ CallerProgress
  \/ \E t \in ThreadIds : LoopProgress(t) \/ AcceptOk(t) \/ AcceptFail(t)
  \/ \E c \in ConnIds : WorkerProgress(c, LifecycleRequests)

\* main() and its server: construction, registrations, start, stop and
\* destruction, the accept loop and its workers.
Spec == Init /\ [][Next]_vars

\* The scheduler runs every thread that can take a step: the caller inside a
\* call, and the accept loop wherever it does not wait for a client. Clients
\* are not obliged to connect, and accept is not obliged to fail.
FairSpec ==
  /\ Spec
  /\ WF_vars(CallerProgress)
  /\ \A t \in ThreadIds : WF_vars(LoopProgress(t))

\* --------------------------------------------------------- a started server
RECURSIVE RoutesOf(_)
\* routes_ after the registrations in calls, in order.
RoutesOf(calls) ==
  IF calls = <<>> THEN <<>>
  ELSE LET before == RoutesOf(SubSeq(calls, 1, Len(calls) - 1))
           last == calls[Len(calls)]
       IN addRoute(before, last[1], last[2], last[3])

\* The state in which start() has returned on main()'s server, on a machine
\* with one of the disks: the routes are registered, the first socket listens
\* and the first accept loop runs.
Started(disks) ==
  /\ running_ = TRUE
  /\ serverSocket_ = 1
  /\ acceptThread_ = 1
  /\ caller = [op |-> "start", pc |-> "idle"]
  /\ sockets = [s \in SocketIds |-> IF s = 1 THEN [state |-> "listening", closes |-> 0]
                                              ELSE [state |-> "unused", closes |-> 0]]
  /\ loops = [t \in ThreadIds |-> [pc |-> IF t = 1 THEN "loop" ELSE "unborn", fd |-> -1, wake |-> FALSE, hist |-> "fresh"]]
  /\ workers = [c \in ConnIds |-> NoWorker]
  /\ \E d \in disks : Loaded(d)
  /\ routes_ = RoutesOf(MainRoutes)
  /\ buffers = [c \in ConnIds |-> <<>>]
  /\ probe = NoProbe

ServeNext ==
  \/ \E t \in ThreadIds : LoopCheck(t) \/ AcceptCall(t) \/ AcceptOk(t)
  \/ \E c \in ConnIds : WorkerProgress(c, Requests)

\* The started server, on a machine with lessons, serving every kind of
\* request: clients connect, nobody stops the server and accept does not fail.
SpecServe == Started({SomeLessons}) /\ [][ServeNext]_vars

\* What clients send to the server whose workers are followed: a request that
\* is answered 200, one answered 400 (a lesson path without a lesson), two
\* answered 404 (no such route, no such file), one answered 405 (a method
\* without routes), and two requests written at once on one connection.
GetCourseOnly == RequestText(<<"G", "E", "T">>, <<"/", "c", "o", "u", "r", "s", "e", "/", "f", "u", "n", "d", "a", "m", "e", "n", "t", "a", "l", "s">>)

GetNothing == RequestText(<<"G", "E", "T">>, <<"/", "n", "o", "t", "h", "i", "n", "g">>)

GetNoFile == RequestText(<<"G", "E", "T">>, <<"/", "c", "s", "s", "/", "n", "o", "n", "e", ".", "c", "s", "s">>)

DeleteHealth == RequestText(<<"D", "E", "L", "E", "T", "E">>, <<"/", "h", "e", "a", "l", "t", "h">>)

GetHealthThenUsers == GetHealth \o GetUsers

WorkerRequests == {GetHealth, GetCourseOnly, GetNothing, GetNoFile, DeleteHealth, GetHealthThenUsers}

WorkerNext ==
  \/ \E t \in ThreadIds : LoopCheck(t) \/ AcceptCall(t) \/ AcceptOk(t)
  \/ \E c \in ConnIds : WorkerProgress(c, WorkerRequests)

\* The started server and the workers of its connections, for requests that
\* end in every status handleClient produces and for clients that send nothing.
SpecWorker == Started({SomeLessons}) /\ [][WorkerNext]_vars

\* Routes registered on a server of its own, and requests routed against them.
SpecRouter == Constructed(Disks) /\ [][(probe = NoProbe /\ AddRoute(AnyRoute)) \/ ProbeRoute]_vars

\* createHttpResponse() on its own.
SpecResponse == Init /\ [][ProbeResponse]_vars

\* The started server of main() given requests of every shape, one at a time.
SpecParser == Started({SomeLessons}) /\ [][ProbeRequest]_vars

\* The started server of main() on every disk, given content requests.
SpecLoader == Started(LoaderDisks) /\ [][ProbePage]_vars

\* The started server of main() on a machine without a lessons directory,
\* given content requests and requests for its routes.
SpecFallback == Started({NoLessons}) /\ [][ProbePage \/ ProbeRoute]_vars

\* The loader of the started server asked for the navigation of a lesson.
SpecNavigation == Started(NavigationDisks) /\ [][ProbeNavigation]_vars

\* markdownToHtml() on its own.
SpecRenderer == Init /\ [][ProbeRender]_vars

\* The started server of main() given requests for static assets.
SpecStatic == Started(Disks) /\ [][ProbeStatic]_vars

\* The started server of main() on disks whose lessons contain the phrases of
\* the Not Found pages, given content requests.
SpecPhrases == Started(PhraseDisks) /\ [][ProbePage]_vars

\* ================================================================ claims
StopReturned == caller.pc = "idle" /\ caller.op = "stop"

Destroyed == caller.pc = "destroyed"

\* C1: a stop() that has cleared the running flag of a running server closes
\* the listening socket, which makes accept return, the loop exit and the
\* join end: the call eventually returns.
C1_StopReturns == (caller.pc = "stop_clear") ~> (caller.pc \in {"idle", "destroyed"})

\* C2: when start() has returned without the server running (socket creation,
\* bind or listen failed), no accept thread exists, no socket is recorded in
\* the server and no socket is left open.
C2_FailedStartLeavesNothing ==
  (caller.pc = "idle" /\ caller.op = "start" /\ ~running_) =>
    (acceptThread_ = 0 /\ LiveLoops = {} /\ serverSocket_ = -1 /\ OpenSockets = {})

\* C3: no listening socket is ever closed twice, and once the server is
\* stopped or destroyed every socket that start() opened has been closed
\* exactly once.
C3_SocketsClosedExactlyOnce ==
  /\ \A s \in SocketIds : sockets[s].closes <= 1
  /\ (StopReturned \/ Destroyed) =>
       \A s \in SocketIds : sockets[s].state # "unused" => (sockets[s].state = "closed" /\ sockets[s].closes = 1)

\* C4: stop() does not wait for workers: once the accept loop has ended (or
\* there is none to join), the join in stop() can return whatever the workers
\* are doing.
C4_StopIgnoresWorkers ==
  (caller.pc = "stop_join" /\ (acceptThread_ = 0 \/ loops[acceptThread_].pc = "done")) => ENABLED StopJoin

\* C4 witness: stop() has returned while a worker is still handling its connection.
C4_Witness == StopReturned /\ \E c \in ConnIds : workers[c].pc \in {"recv", "handle", "close"}

\* C5: start() on a running server returns at once and changes nothing, and
\* at most one accept loop is alive at any time.
C5_StartIdempotent ==
  /\ [][(caller.pc = "idle" /\ caller' # caller /\ caller'.op \in {"start", "start_again"} /\ running_) =>
          (caller'.pc = "idle" /\ UNCHANGED <<running_, serverSocket_, acceptThread_, sockets, loops, workers>>)]_vars
  /\ [](Cardinality(LiveLoops) <= 1)

\* C5 witness: start() was called on a running server and has returned.
C5_Witness == caller.op = "start_again" /\ caller.pc = "idle" /\ running_ /\ Cardinality(LiveLoops) = 1

\* C6: a failed accept never ends the loop: from the accept call the loop goes
\* back to the test of the running flag, and the test ends the loop only when
\* the flag is cleared and otherwise calls accept again.
C6_FailedAcceptContinues ==
  [][\A t \in ThreadIds :
       /\ loops[t].pc \in {"call", "accept"} => loops'[t].pc \in {"call", "accept", "loop"}
       /\ (loops[t].pc = "loop" /\ loops'[t].pc # "loop") =>
            loops'[t].pc = (IF running_ THEN "call" ELSE "done")]_vars

\* C6 witness: after a failed accept, a later connection was handed to a worker.
C6_Witness == \E t \in ThreadIds : loops[t].hist = "recovered" /\ running_ /\ \E c \in ConnIds : workers[c].pc = "recv"

\* The responses handleClient sends for a request when nothing else runs, one
\* for each reading of the clock.
Alone(sent) == {handleClient(Received(sent), now).response : now \in Clock}

\* C7: whatever two workers do at the same time, what a worker sends is what
\* its request gets when it is handled alone, and a step of a worker writes
\* nothing but the worker's own buffer and locals: not the routes, not the
\* catalog, not another worker's buffer or locals.
C7_WorkersIndependent ==
  /\ [](\A c \in ConnIds : (workers[c].pc = "close" /\ workers[c].sent # <<>>) => workers[c].response \in Alone(workers[c].sent))
  /\ [][\A c \in ConnIds : (workers[c].pc \in {"recv", "handle", "close"} /\ workers'[c] # workers[c]) =>
          /\ UNCHANGED <<routes_, modules_, moduleOrder_, courseModules_, renderLog, disk>>
          /\ \A d \in ConnIds \ {c} : buffers'[d] = buffers[d] /\ workers'[d] = workers[d]]_vars

\* C7 witness: two workers have answered requests to two different registered
\* routes and neither has closed its connection yet.
C7_Witness ==
  \E c, d \in ConnIds :
    /\ workers[c].pc = "close" /\ workers[c].sent = GetHealth /\ workers[c].response \in Alone(GetHealth)
    /\ workers[d].pc = "close" /\ workers[d].sent = GetUsers /\ workers[d].response \in Alone(GetUsers)

\* How often markdownToHtml was called for lesson l of module m.
Renders(m, l) == Cardinality({i \in 1..Len(renderLog) : renderLog[i] = <<m, l>>})

\* C8: on the started server no step (of a worker on any kind of request, or
\* of the accept loop) changes the routes, the catalog, the module order, the
\* built-in lesson lists or the cached HTML, and the renderer is not called
\* again: every lesson was rendered at most once, and exactly once when its
\* file was read.
C8_CatalogImmutable ==
  /\ [][UNCHANGED <<routes_, modules_, moduleOrder_, courseModules_, renderLog>>]_vars
  /\ [](\A m \in DOMAIN modules_ : \A l \in DOMAIN modules_[m].lessonData :
          /\ Renders(m, l) <= 1
          /\ modules_[m].lessonData[l].content # <<>> => Renders(m, l) = 1)

\* C8 witness: a lesson page with the cached HTML of a loaded lesson and a
\* static file have been served, and the lesson has still been rendered once.
C8_Witness ==
  \E c, d \in ConnIds :
    /\ workers[c].pc = "close" /\ workers[c].sent = GetLesson
    /\ Find(workers[c].response, modules_[<<"f", "u", "n", "d", "a", "m", "e", "n", "t", "a", "l", "s">>].lessonData[<<"i", "n", "t", "r", "o", "d", "u", "c", "t", "i", "o", "n">>].htmlContent, 0) # npos
    /\ Renders(<<"f", "u", "n", "d", "a", "m", "e", "n", "t", "a", "l", "s">>, <<"i", "n", "t", "r", "o", "d", "u", "c", "t", "i", "o", "n">>) = 1
    /\ workers[d].pc = "close" /\ workers[d].sent = GetStyle

\* The value of the header `name` (written with its colon and space) in a response.
HeaderValue(response, name) ==
  LET start == Find(response, name, 0) + Len(name)
  IN SubSeq(response, start + 1, Find(response, CRLF, start))

RECURSIVE StrToInt(_)
\* The number that a string of decimal digits denotes.
StrToInt(digits) ==
  IF digits = <<>> THEN 0
  ELSE 10 * StrToInt(SubSeq(digits, 1, Len(digits) - 1)) + (CHOOSE n \in 0..9 : Digits[n + 1] = digits[Len(digits)])

\* C9: in every response createHttpResponse builds, the Content-Length header
\* is the decimal length of the body and the bytes after the first blank line
\* are the body.
C9_ContentLengthIsBodyLength ==
  probe.kind = "response" =>
    LET value == HeaderValue(probe.response, <<"C", "o", "n", "t", "e", "n", "t", "-", "L", "e", "n", "g", "t", "h", ":", " ">>)
        blank == Find(probe.response, CRLF \o CRLF, 0)
    IN /\ value # <<>>
       /\ \A i \in 1..Len(value) : IsDigit(value[i])
       /\ StrToInt(value) = Len(probe.body)
       /\ blank # npos
       /\ SubStrFrom(probe.response, blank + 4) = probe.body

\* C9 witness: a 404 response was built for a body that has a CR and an LF in it.
C9_Witness ==
  /\ probe.kind = "response"
  /\ probe.statusCode = 404
  /\ Find(probe.body, CRLF, 0) # npos

\* The request path starts with the content prefix or a static-asset prefix.
IsSpecialPath(path) ==
  Find(path, <<"/", "c", "o", "u", "r", "s", "e", "/">>, 0) = 0 \/ Find(path, <<"/", "c", "s", "s", "/">>, 0) = 0 \/ Find(path, <<"/", "j", "s", "/">>, 0) = 0

\* C10: a request outside the special prefixes whose path is registered under
\* no method gets status 404, whatever its method.
C10_UnknownPathIs404 ==
  (/\ probe.kind = "route"
   /\ ~IsSpecialPath(probe.path)
   /\ \A method \in DOMAIN probe.routes : probe.path \notin DOMAIN probe.routes[method]) =>
    probe.statusCode = 404

\* C10, the case the code gets wrong: the request's method has no route at all.
C10_Divergence ==
  /\ probe.kind = "route"
  /\ ~IsSpecialPath(probe.path)
  /\ \A method \in DOMAIN probe.routes : probe.path \notin DOMAIN probe.routes[method]
  /\ probe.method \notin DOMAIN probe.routes
  /\ probe.statusCode = 405


\* The path of the routed request is registered under a method other than the
\* request's, and not under the request's method.
OnlyUnderOtherMethod ==
  /\ probe.kind = "route"
  /\ ~IsSpecialPath(probe.path)
  /\ probe.method \in DOMAIN probe.routes => probe.path \notin DOMAIN probe.routes[probe.method]
  /\ \E method \in DOMAIN probe.routes \ {probe.method} : probe.path \in DOMAIN probe.routes[method]

\* C11: a request outside the special prefixes whose path is registered under
\* another method, but not under the request's method, gets status 405, also
\* when the request's method has other paths registered.
C11_OtherMethodIs405 == OnlyUnderOtherMethod => probe.statusCode = 405

\* C11, the case the code gets wrong: the request's method has routes of its
\* own, none of them for this path, and the answer is 404.
C11_Divergence ==
  /\ OnlyUnderOtherMethod
  /\ probe.method \in DOMAIN probe.routes
  /\ probe.statusCode = 404
  /\ probe.responseBody = <<"N", "o", "t", " ", "F", "o", "u", "n", "d">>


\* C12: for a request that reaches the route table with a method that has
\* routes, the handler called is the one registered for exactly the request
\* path; when no registered path of that method equals the request path
\* character for character, no handler is called and the status is 404.
C12_LookupIsExact ==
  (/\ probe.kind = "route"
   /\ ~IsSpecialPath(probe.path)
   /\ probe.method \in DOMAIN probe.routes) =>
    IF probe.path \in DOMAIN probe.routes[probe.method]
      THEN probe.handler = probe.routes[probe.method][probe.path] /\ probe.statusCode = 200
      ELSE probe.handler = "none" /\ probe.statusCode = 404

\* C12 witness: /health is registered under GET, and a GET request for a path
\* that differs from it in one of these ways was answered 404.
C12_Witness ==
  /\ probe.kind = "route"
  /\ probe.method = <<"G", "E", "T">>
  /\ <<"G", "E", "T">> \in DOMAIN probe.routes
  /\ <<"/", "h", "e", "a", "l", "t", "h">> \in DOMAIN probe.routes[<<"G", "E", "T">>]
  /\ probe.path = <<"/", "h", "e", "a", "l", "t", "h", "?", "x", "=", "1">>
  /\ probe.statusCode = 404


\* C13: a request whose path starts with the content prefix or a static-asset
\* prefix never reaches a registered handler, whatever its method and whatever
\* is registered: it is answered by the content or the static-file branch.
C13_PrefixesBeforeTable ==
  (probe.kind = "route" /\ IsSpecialPath(probe.path)) =>
    /\ probe.handler = "none"
    /\ probe.responseBody \notin {handleUsers, handleHealth(probe.now)}
    /\ probe.statusCode # 405

\* C13 witness: a handler is registered for GET /css/style.css, and a GET
\* request for that path was answered with the file.
C13_Witness ==
  /\ probe.kind = "route"
  /\ probe.method = <<"G", "E", "T">>
  /\ probe.path = <<"/", "c", "s", "s", "/", "s", "t", "y", "l", "e", ".", "c", "s", "s">>
  /\ <<"G", "E", "T">> \in DOMAIN probe.routes
  /\ <<"/", "c", "s", "s", "/", "s", "t", "y", "l", "e", ".", "c", "s", "s">> \in DOMAIN probe.routes[<<"G", "E", "T">>]
  /\ probe.handler = "none"
  /\ probe.responseBody = <<"b", "o", "d", "y", "{", "}">>


\* The white-space separated words of a line.
WordCount(line) ==
  Cardinality({i \in 1..Len(line) : ~IsSpace(line[i]) /\ (i = 1 \/ IsSpace(line[i - 1]))})

\* C14: when the first line of a request has no method or no path, the parser
\* yields the empty string for what is missing and the request is answered
\* with status 404 or 400.
C14_MalformedIs404Or400 ==
  (probe.kind = "request" /\ WordCount(probe.first) < 2) =>
    /\ probe.path = <<>>
    /\ WordCount(probe.first) = 0 => probe.method = <<>>
    /\ probe.statusCode \in {404, 400}

\* C14, the case the code gets wrong: nothing is on the first line, the parser
\* yields an empty method and an empty path, and the answer is 405.
C14_Divergence ==
  /\ probe.kind = "request"
  /\ probe.first = <<"\r">>
  /\ probe.method = <<>>
  /\ probe.path = <<>>
  /\ probe.statusCode = 405


\* The lines of a block that come before its first blank line.
HeaderPart(block) ==
  SubSeq(block, 1, Cardinality({i \in 1..Len(block) : \A j \in 1..i : block[j] \notin {<<>>, <<"\r">>}}))

\* A header line up to its first colon.
NameOf(line) == SubStr(line, 0, Find(line, <<":">>, 0))

RECURSIVE WithoutLeadingSpaces(_)
WithoutLeadingSpaces(s) ==
  IF s # <<>> /\ s[1] = " " THEN WithoutLeadingSpaces(Tail(s)) ELSE s

\* What follows the first colon of a header line, without one trailing
\* carriage return.
RawValueOf(line) ==
  LET cut(value) == IF value # <<>> /\ value[Len(value)] = "\r" THEN SubSeq(value, 1, Len(value) - 1) ELSE value
  IN cut(SubStrFrom(line, Find(line, <<":">>, 0) + 1))

\* The last line of the lines that has the name of line i.
LastOf(lines, i) ==
  CHOOSE j \in i..Len(lines) :
    /\ Find(lines[j], <<":">>, 0) # npos
    /\ NameOf(lines[j]) = NameOf(lines[i])
    /\ \A k \in (j + 1)..Len(lines) : Find(lines[k], <<":">>, 0) = npos \/ NameOf(lines[k]) # NameOf(lines[i])

\* C15: for every header line before the first blank line, the parser splits
\* at the first colon and stores under the name the value with its leading
\* spaces and one trailing carriage return removed; of several lines with one
\* name the last is the one stored.
C15_HeaderValueStripped ==
  probe.kind = "request" =>
    \A i \in 1..Len(HeaderPart(probe.block)) :
      Find(HeaderPart(probe.block)[i], <<":">>, 0) # npos =>
        /\ NameOf(HeaderPart(probe.block)[i]) \in DOMAIN probe.headers
        /\ probe.headers[NameOf(HeaderPart(probe.block)[i])]
             = WithoutLeadingSpaces(RawValueOf(HeaderPart(probe.block)[LastOf(HeaderPart(probe.block), i)]))

\* C15 with the values as the code stores them: everything after the first
\* colon but one trailing carriage return, the last line of a name winning,
\* and nothing stored from the blank line on.
C15_HeaderValueKept ==
  probe.kind = "request" =>
    /\ DOMAIN probe.headers
         = {NameOf(HeaderPart(probe.block)[i]) :
              i \in {k \in 1..Len(HeaderPart(probe.block)) : Find(HeaderPart(probe.block)[k], <<":">>, 0) # npos}}
    /\ \A i \in 1..Len(HeaderPart(probe.block)) :
         Find(HeaderPart(probe.block)[i], <<":">>, 0) # npos =>
           probe.headers[NameOf(HeaderPart(probe.block)[i])]
             = RawValueOf(HeaderPart(probe.block)[LastOf(HeaderPart(probe.block), i)])

\* C15, the case the code gets wrong: the line "Host: localhost" is the only
\* header and the value stored for Host begins with the space.
C15_Divergence ==
  /\ probe.kind = "request"
  /\ probe.block = <<<<"H", "o", "s", "t", ":", " ", "l", "o", "c", "a", "l", "h", "o", "s", "t", "\r">>>>
  /\ probe.headers[<<"H", "o", "s", "t">>] = <<" ", "l", "o", "c", "a", "l", "h", "o", "s", "t">>


\* The module directories of the disk, in the order they are discovered.
DiscoveredModules == SelectSeq(disk.entries, LAMBDA entry : entry.dir)

\* The lessons discovered in the module directory: the names of its .md
\* files, in the order they are discovered.
DiscoveredLessons(entry) ==
  LET stems(files) == [i \in DOMAIN files |-> files[i].stem]
  IN stems(SelectSeq(entry.files, LAMBDA f : f.ext = <<".", "m", "d">>))

\* The names of the catalog that were discovered, in catalog order, followed
\* by the discovered names that are not in the catalog, in discovery order.
CatalogFirst(catalog, discovered) ==
  SelectSeq(catalog, LAMBDA name : name \in Range(discovered))
  \o SelectSeq(discovered, LAMBDA name : name \notin Range(catalog))

\* C16: for every module and every directory enumeration order the loaded
\* lesson list is the discovered lessons of the module's canonical catalog in
\* catalog order, followed by the other discovered lessons in discovery
\* order; without a canonical catalog it is the discovery order; it is always
\* a permutation of the discovered lessons.
C16_LessonOrder ==
  disk.exists =>
    \A i \in DOMAIN DiscoveredModules :
      /\ DiscoveredModules[i].name \in DOMAIN modules_
      /\ modules_[DiscoveredModules[i].name].lessons
           = IF DiscoveredModules[i].name \in DOMAIN lessonOrder
               THEN CatalogFirst(lessonOrder[DiscoveredModules[i].name], DiscoveredLessons(DiscoveredModules[i]))
               ELSE DiscoveredLessons(DiscoveredModules[i])
      /\ Len(modules_[DiscoveredModules[i].name].lessons) = Len(DiscoveredLessons(DiscoveredModules[i]))
      /\ Range(modules_[DiscoveredModules[i].name].lessons) = Range(DiscoveredLessons(DiscoveredModules[i]))

\* C16, its case: the lessons of fundamentals are discovered as zeta,
\* sockets, alpha, introduction and those of extras as faq, draft, and the
\* loaded lists are introduction, sockets, zeta, alpha and faq, draft.
C16_Witness ==
  /\ disk.exists
  /\ \E i, j \in DOMAIN DiscoveredModules :
       /\ DiscoveredModules[i].name = <<"f", "u", "n", "d", "a", "m", "e", "n", "t", "a", "l", "s">>
       /\ DiscoveredLessons(DiscoveredModules[i]) = <<<<"z", "e", "t", "a">>, <<"s", "o", "c", "k", "e", "t", "s">>, <<"a", "l", "p", "h", "a">>, <<"i", "n", "t", "r", "o", "d", "u", "c", "t", "i", "o", "n">>>>
       /\ DiscoveredModules[j].name = <<"e", "x", "t", "r", "a", "s">>
       /\ DiscoveredLessons(DiscoveredModules[j]) = <<<<"f", "a", "q">>, <<"d", "r", "a", "f", "t">>>>
  /\ modules_[<<"f", "u", "n", "d", "a", "m", "e", "n", "t", "a", "l", "s">>].lessons = <<<<"i", "n", "t", "r", "o", "d", "u", "c", "t", "i", "o", "n">>, <<"s", "o", "c", "k", "e", "t", "s">>, <<"z", "e", "t", "a">>, <<"a", "l", "p", "h", "a">>>>
  /\ modules_[<<"e", "x", "t", "r", "a", "s">>].lessons = <<<<"f", "a", "q">>, <<"d", "r", "a", "f", "t">>>>
  /\ probe.kind = "page"

\* The canonical module catalog.
ModuleCatalog == <<<<"f", "u", "n", "d", "a", "m", "e", "n", "t", "a", "l", "s">>, <<"b", "u", "i", "l", "d", "i", "n", "g", "-", "b", "l", "o", "c", "k", "s">>, <<"a", "d", "v", "a", "n", "c", "e", "d", "-", "f", "e", "a", "t", "u", "r", "e", "s">>, <<"d", "e", "p", "l", "o", "y", "m", "e", "n", "t">>>>

\* C17: the module order used for navigation is the loaded modules of the
\* canonical module catalog in catalog order, followed by the loaded modules
\* absent from the catalog in the order in which they were discovered.
C17_ModuleOrder ==
  disk.exists =>
    moduleOrder_ = CatalogFirst(ModuleCatalog, [i \in DOMAIN DiscoveredModules |-> DiscoveredModules[i].name])

\* C17, the case the code gets wrong: extras is discovered before appendix
\* and the module order has appendix before extras.
C17_Divergence ==
  /\ disk.exists
  /\ [i \in DOMAIN DiscoveredModules |-> DiscoveredModules[i].name] = <<<<"e", "x", "t", "r", "a", "s">>, <<"f", "u", "n", "d", "a", "m", "e", "n", "t", "a", "l", "s">>, <<"a", "p", "p", "e", "n", "d", "i", "x">>>>
  /\ moduleOrder_ = <<<<"f", "u", "n", "d", "a", "m", "e", "n", "t", "a", "l", "s">>, <<"a", "p", "p", "e", "n", "d", "i", "x">>, <<"e", "x", "t", "r", "a", "s">>>>
  /\ probe.kind = "page"


\* The .md files of the module directory.
LessonFiles(entry) == SelectSeq(entry.files, LAMBDA f : f.ext = <<".", "m", "d">>)

\* C18: a lesson file that cannot be opened or read is skipped: after
\* loading, its name is neither in its module's ordered lesson list nor a key
\* of the module's lesson records, while all other lessons of the module are
\* loaded normally.
C18_UnreadableSkipped ==
  disk.exists =>
    \A i \in DOMAIN DiscoveredModules :
      \A k \in DOMAIN LessonFiles(DiscoveredModules[i]) :
        IF LessonFiles(DiscoveredModules[i])[k].readable
          THEN /\ LessonFiles(DiscoveredModules[i])[k].stem \in Range(modules_[DiscoveredModules[i].name].lessons)
               /\ LessonFiles(DiscoveredModules[i])[k].stem \in DOMAIN modules_[DiscoveredModules[i].name].lessonData
               /\ modules_[DiscoveredModules[i].name].lessonData[LessonFiles(DiscoveredModules[i])[k].stem].content
                    = LessonFiles(DiscoveredModules[i])[k].content
          ELSE /\ LessonFiles(DiscoveredModules[i])[k].stem \notin Range(modules_[DiscoveredModules[i].name].lessons)
               /\ LessonFiles(DiscoveredModules[i])[k].stem \notin DOMAIN modules_[DiscoveredModules[i].name].lessonData

\* C18, the case the code gets wrong: sockets.md of fundamentals cannot be
\* opened, and sockets is in the lesson list of fundamentals, a key of its
\* lesson records with empty content, and a link of the navigation on the
\* page of the lesson introduction.
C18_Divergence ==
  /\ disk.exists
  /\ \E i \in DOMAIN DiscoveredModules :
       /\ DiscoveredModules[i].name = <<"f", "u", "n", "d", "a", "m", "e", "n", "t", "a", "l", "s">>
       /\ \E k \in DOMAIN LessonFiles(DiscoveredModules[i]) :
            /\ LessonFiles(DiscoveredModules[i])[k].stem = <<"s", "o", "c", "k", "e", "t", "s">>
            /\ ~LessonFiles(DiscoveredModules[i])[k].readable
  /\ Contains(modules_[<<"f", "u", "n", "d", "a", "m", "e", "n", "t", "a", "l", "s">>].lessons, <<"s", "o", "c", "k", "e", "t", "s">>)
  /\ <<"s", "o", "c", "k", "e", "t", "s">> \in DOMAIN modules_[<<"f", "u", "n", "d", "a", "m", "e", "n", "t", "a", "l", "s">>].lessonData
  /\ modules_[<<"f", "u", "n", "d", "a", "m", "e", "n", "t", "a", "l", "s">>].lessonData[<<"s", "o", "c", "k", "e", "t", "s">>].content = <<>>
  /\ probe.kind = "page"
  /\ probe.module = <<"f", "u", "n", "d", "a", "m", "e", "n", "t", "a", "l", "s">>
  /\ probe.lesson = <<"i", "n", "t", "r", "o", "d", "u", "c", "t", "i", "o", "n">>
  /\ Find(probe.responseBody, <<"<", "l", "i", ">", "<", "a", " ", "h", "r", "e", "f", "=", "\"", "/", "c", "o", "u", "r", "s", "e",
      "/", "f", "u", "n", "d", "a", "m", "e", "n", "t", "a", "l", "s", "/", "s", "o", "c", "k", "e", "t",
      "s", "\"", ">">>, 0) # npos


\* C19: a content request for a module that is not in the catalog returns a
\* page containing "Module Not Found"; one for a module of the catalog with a
\* lesson that is not in that module returns a page containing "Lesson Not
\* Found"; both are answered, with status 200.
C19_NotFoundPages ==
  probe.kind = "page" =>
    IF probe.module \notin DOMAIN courseModules_
      THEN probe.statusCode = 200 /\ Find(probe.responseBody, <<"M", "o", "d", "u", "l", "e", " ", "N", "o", "t", " ", "F", "o", "u", "n", "d">>, 0) # npos
      ELSE ~Contains(courseModules_[probe.module], probe.lesson) =>
             probe.statusCode = 200 /\ Find(probe.responseBody, <<"L", "e", "s", "s", "o", "n", " ", "N", "o", "t", " ", "F", "o", "u", "n", "d">>, 0) # npos

\* C19, its case: on a disk with lessons, the lesson missing of the loaded
\* module fundamentals was requested and the page says Lesson Not Found.
C19_Witness ==
  /\ disk.exists
  /\ probe.kind = "page"
  /\ probe.module = <<"f", "u", "n", "d", "a", "m", "e", "n", "t", "a", "l", "s">>
  /\ probe.lesson = <<"m", "i", "s", "s", "i", "n", "g">>
  /\ <<"f", "u", "n", "d", "a", "m", "e", "n", "t", "a", "l", "s">> \in DOMAIN courseModules_
  /\ Find(probe.responseBody, <<"<", "h", "2", ">", "L", "e", "s", "s", "o", "n", " ", "N", "o", "t", " ", "F", "o", "u", "n", "d",
      "<", "/", "h", "2", ">">>, 0) # npos

\* The placeholder content of a lesson.
Placeholder(lesson) == <<"<", "h", "2", ">">> \o lesson \o <<"<", "/", "h", "2", ">", "<", "p", ">", "L", "e", "s", "s", "o", "n", " ", "c", "o", "n", "t", "e",
      "n", "t", " ", "i", "s", " ", "n", "o", "t", " ", "a", "v", "a", "i", "l", "a", "b", "l", "e", ".",
      "<", "/", "p", ">">>

\* C20: when no lessons directory exists the server starts and uses the
\* built-in catalog: a content request for any (module, lesson) pair of the
\* built-in catalog returns a page with placeholder content for that lesson,
\* not a Module or Lesson Not Found page, and a request for a registered
\* route gets the result of its handler.
C20_BuiltInCatalog ==
  ~disk.exists =>
    /\ running_
    /\ modules_ = <<>>
    /\ DOMAIN courseModules_ = {<<"f", "u", "n", "d", "a", "m", "e", "n", "t", "a", "l", "s">>, <<"b", "u", "i", "l", "d", "i", "n", "g", "-", "b", "l", "o", "c", "k", "s">>, <<"a", "d", "v", "a", "n", "c", "e", "d", "-", "f", "e", "a", "t", "u", "r", "e", "s">>, <<"d", "e", "p", "l", "o", "y", "m", "e", "n", "t">>}
    /\ \A moduleName \in DOMAIN courseModules_ : Len(courseModules_[moduleName]) = 4
    /\ (/\ probe.kind = "page"
        /\ probe.module \in DOMAIN courseModules_
        /\ Contains(courseModules_[probe.module], probe.lesson)) =>
          /\ probe.statusCode = 200
          /\ Find(probe.responseBody, Placeholder(probe.lesson), 0) # npos
          /\ Find(probe.responseBody, <<"M", "o", "d", "u", "l", "e", " ", "N", "o", "t", " ", "F", "o", "u", "n", "d">>, 0) = npos
          /\ Find(probe.responseBody, <<"L", "e", "s", "s", "o", "n", " ", "N", "o", "t", " ", "F", "o", "u", "n", "d">>, 0) = npos
    /\ (/\ probe.kind = "route"
        /\ ~IsSpecialPath(probe.path)
        /\ probe.method \in DOMAIN probe.routes
        /\ probe.path \in DOMAIN probe.routes[probe.method]) =>
          /\ probe.statusCode = 200
          /\ probe.handler = probe.routes[probe.method][probe.path]
          /\ probe.responseBody = CallHandler(probe.handler, <<>>, <<>>, probe.now)

\* C20, its case: without a lessons directory the page of the lesson scaling
\* of the built-in module deployment was requested and has the placeholder.
C20_Witness ==
  /\ ~disk.exists
  /\ probe.kind = "page"
  /\ probe.module = <<"d", "e", "p", "l", "o", "y", "m", "e", "n", "t">>
  /\ probe.lesson = <<"s", "c", "a", "l", "i", "n", "g">>
  /\ Find(probe.responseBody, Placeholder(<<"s", "c", "a", "l", "i", "n", "g">>), 0) # npos


\* The ordered lesson list the loader holds for the module of the probe.
ProbedLessons == IF probe.module \in DOMAIN modules_ THEN modules_[probe.module].lessons ELSE <<>>

\* The link of the navigation to a lesson of the module of the probe.
NavButton(lesson, class) == <<"<", "a", " ", "h", "r", "e", "f", "=", "\"", "/", "c", "o", "u", "r", "s", "e", "/">> \o probe.module \o <<"/">> \o lesson \o <<"\"", " ", "c", "l", "a", "s", "s", "=", "\"", "n", "a", "v", "-", "b", "t", "n", " ">> \o class \o <<"\"", ">">>

\* C21: for a lesson at position i of a module's ordered lesson list of
\* length n, the previous link is the lesson at i-1 when i > 0 and empty when
\* i = 0, and the next link is the lesson at i+1 when i < n-1 and empty when
\* i = n-1; a lesson not in the list gets both links empty. (Positions are
\* counted from 1 here.)
C21_PreviousNext ==
  probe.kind = "navigation" =>
    /\ \A i \in DOMAIN ProbedLessons :
         ProbedLessons[i] = probe.lesson =>
           /\ probe.prevNext[1] = IF i > 1 THEN ProbedLessons[i - 1] ELSE <<>>
           /\ probe.prevNext[2] = IF i < Len(ProbedLessons) THEN ProbedLessons[i + 1] ELSE <<>>
    /\ ~Contains(ProbedLessons, probe.lesson) => probe.prevNext = <<<<>>, <<>>>>
    /\ IF probe.prevNext[1] = <<>>
         THEN Find(probe.navigation, <<"p", "r", "e", "v", "-", "b", "t", "n">>, 0) = npos
         ELSE Find(probe.navigation, NavButton(probe.prevNext[1], <<"p", "r", "e", "v", "-", "b", "t", "n">>), 0) # npos
    /\ IF probe.prevNext[2] = <<>>
         THEN Find(probe.navigation, <<"n", "e", "x", "t", "-", "b", "t", "n">>, 0) = npos
         ELSE Find(probe.navigation, NavButton(probe.prevNext[2], <<"n", "e", "x", "t", "-", "b", "t", "n">>), 0) # npos

\* C21, its case: the list is introduction, sockets, zeta, alpha, and the
\* last lesson has the previous link zeta and no next link.
C21_Witness ==
  /\ probe.kind = "navigation"
  /\ probe.module = <<"f", "u", "n", "d", "a", "m", "e", "n", "t", "a", "l", "s">>
  /\ probe.lesson = <<"a", "l", "p", "h", "a">>
  /\ ProbedLessons = <<<<"i", "n", "t", "r", "o", "d", "u", "c", "t", "i", "o", "n">>, <<"s", "o", "c", "k", "e", "t", "s">>, <<"z", "e", "t", "a">>, <<"a", "l", "p", "h", "a">>>>
  /\ probe.prevNext = <<<<"z", "e", "t", "a">>, <<>>>>

C22_Divergence ==
  /\ disk.exists
  /\ probe.kind = "navigation"
  /\ probe.module = <<"n", "o", "t", "h", "i", "n", "g">>
  /\ <<"n", "o", "t", "h", "i", "n", "g">> \notin DOMAIN courseModules_
  /\ Find(probe.navigation, <<"<", "d", "i", "v", " ", "c", "l", "a", "s", "s", "=", "\"", "m", "o", "d", "u", "l", "e", "-", "t",
      "a", "b", "s", "\"", ">", "<", "u", "l", ">", "<", "l", "i", ">", "<", "a", " ", "h", "r", "e", "f",
      "=", "\"", "/", "c", "o", "u", "r", "s", "e", "/", "f", "u", "n", "d", "a", "m", "e", "n", "t", "a",
      "l", "s", "/", "i", "n", "t", "r", "o", "d", "u", "c", "t", "i", "o", "n", "\"", ">", "F", "u", "n",
      "d", "a", "m", "e", "n", "t", "a", "l", "s", "<", "/", "a", ">", "<", "/", "l", "i", ">">>, 0) # npos
  /\ Find(probe.navigation, <<"<", "u", "l", " ", "c", "l", "a", "s", "s", "=", "\"", "l", "e", "s", "s", "o", "n", "-", "l", "i",
      "s", "t", "\"", ">", "<", "/", "u", "l", ">">>, 0) # npos
  /\ Find(probe.navigation, <<"n", "a", "v", "-", "b", "t", "n">>, 0) = npos


RECURSIVE Count(_, _, _)
\* How many times the text occurs in s from position pos on, counted as
\* std::string::find counts when it continues after each occurrence.
Count(s, text, pos) ==
  LET more(at) == IF at = npos THEN 0 ELSE 1 + Count(s, text, at + Len(text))
  IN more(Find(s, text, pos))

\* C23: rendering a three-line pipe table (header row, dash separator row,
\* one data row) produces exactly one <table> that contains exactly one <tr>
\* of <td> cells; the separator row produces no row.
C23_OneRow ==
  (probe.kind = "render" /\ probe.markdown = <<"|", " ", "A", " ", "|", " ", "B", " ", "|", "\n", "|", "-", "-", "-", "|", "-", "-", "-", "|", "\n",
      "|", " ", "1", " ", "|", " ", "2", " ", "|", "\n">>) =>
    /\ Count(probe.html, <<"<", "t", "a", "b", "l", "e">>, 0) = 1
    /\ Count(probe.html, <<"<", "t", "r", ">">>, 0) = 1
    /\ Find(probe.html, <<"-">>, 0) = Find(probe.html, <<"-", "c", "o", "n", "t", "a", "i", "n", "e", "r">>, 0)
    /\ Count(probe.html, <<"-">>, 0) = 2

\* C23, the case the code gets wrong: the table has two rows of <td> cells,
\* one for the header row and one for the data row.
C23_Divergence ==
  /\ probe.kind = "render"
  /\ probe.markdown = <<"|", " ", "A", " ", "|", " ", "B", " ", "|", "\n", "|", "-", "-", "-", "|", "-", "-", "-", "|", "\n",
      "|", " ", "1", " ", "|", " ", "2", " ", "|", "\n">>
  /\ probe.html = <<"<", "d", "i", "v", " ", "c", "l", "a", "s", "s", "=", "\"", "t", "a", "b", "l", "e", "-", "c", "o",
      "n", "t", "a", "i", "n", "e", "r", "\"", ">", "<", "t", "a", "b", "l", "e", " ", "c", "l", "a", "s",
      "s", "=", "\"", "c", "o", "u", "r", "s", "e", "-", "t", "a", "b", "l", "e", "\"", ">", "<", "t", "r",
      ">", "<", "t", "d", ">", "A", "<", "/", "t", "d", ">", "<", "t", "d", ">", "B", "<", "/", "t", "d",
      ">", "<", "/", "t", "r", ">", "<", "t", "r", ">", "<", "t", "d", ">", "1", "<", "/", "t", "d", ">",
      "<", "t", "d", ">", "2", "<", "/", "t", "d", ">", "<", "/", "t", "r", ">", "<", "/", "t", "a", "b",
      "l", "e", ">", "<", "/", "d", "i", "v", ">">>


\* A line that starts and ends with '|'.
StartsAndEndsWithBar(line) == line # <<>> /\ Head(line) = "|" /\ line[Len(line)] = "|"

\* A line made only of '|', '-' and spaces, and not blank.
OnlyBarsAndDashes(line) == line # <<>> /\ \A k \in DOMAIN line : line[k] \in {"|", "-", " "}

\* The row of a table line whose cells hold no marker.
PlainRow(line) ==
  LET cells(pieces) == Concat([k \in 1..(Len(pieces) - 1) |-> <<"<", "t", "d", ">">> \o Trim(pieces[k + 1], {" ", "\t"}) \o <<"<", "/", "t", "d", ">">>])
  IN <<"<", "t", "r", ">">> \o cells(GetLines(line, "|")) \o <<"<", "/", "t", "r", ">">>

RECURSIVE TablesAsStated(_, _, _)
\* The table pass as the claim states it, from line i on, after `rows` rows
\* of the table that is open (0 when none is): a table is a run of
\* consecutive lines that start and end with '|', and only the line after
\* its first row is dropped when it is made of '|', '-' and spaces.
TablesAsStated(lines, i, rows) ==
  IF i > Len(lines) THEN (IF rows > 0 THEN <<"<", "/", "t", "a", "b", "l", "e", ">", "<", "/", "d", "i", "v", ">">> ELSE <<>>)
  ELSE IF rows = 1 /\ OnlyBarsAndDashes(lines[i]) THEN TablesAsStated(lines, i + 1, 2)
  ELSE IF StartsAndEndsWithBar(lines[i])
    THEN (IF rows = 0 THEN <<"<", "d", "i", "v", " ", "c", "l", "a", "s", "s", "=", "\"", "t", "a", "b", "l", "e", "-", "c", "o",
      "n", "t", "a", "i", "n", "e", "r", "\"", ">", "<", "t", "a", "b", "l", "e", " ", "c", "l", "a", "s",
      "s", "=", "\"", "c", "o", "u", "r", "s", "e", "-", "t", "a", "b", "l", "e", "\"", ">">> ELSE <<>>)
         \o PlainRow(lines[i]) \o TablesAsStated(lines, i + 1, rows + 1)
    ELSE (IF rows > 0 THEN <<"<", "/", "t", "a", "b", "l", "e", ">", "<", "/", "d", "i", "v", ">">> ELSE <<>>) \o lines[i] \o <<"\n">> \o TablesAsStated(lines, i + 1, 0)

\* C24: in the table pass a table is a run of consecutive lines that each
\* start and end with '|', and only the line immediately following the first
\* row of a table can be dropped as the header separator: a blank line after
\* a table row ends the table and is kept in the output, and a line made only
\* of '|', '-' and spaces that follows a second or later row is not dropped.
\* Stated for the texts written line by line, which the other passes leave
\* as they are.
C24_SeparatorAfterFirstRowOnly ==
  (probe.kind = "render" /\ probe.markdown \in Texts(MarkdownLines, <<"\n">>, MaxMarkdownLines)) =>
    probe.html = TablesAsStated(GetLines(probe.markdown, "\n"), 1, 0)

\* C24, the case the code gets wrong: a blank line between two table rows is
\* dropped and both rows are in one table.
C24_Divergence ==
  /\ probe.kind = "render"
  /\ probe.markdown = <<"|", " ", "A", " ", "|", " ", "B", " ", "|", "\n", "\n", "|", " ", "1", " ", "|", " ", "2", " ", "|", "\n">>
  /\ probe.html = <<"<", "d", "i", "v", " ", "c", "l", "a", "s", "s", "=", "\"", "t", "a", "b", "l", "e", "-", "c", "o",
      "n", "t", "a", "i", "n", "e", "r", "\"", ">", "<", "t", "a", "b", "l", "e", " ", "c", "l", "a", "s",
      "s", "=", "\"", "c", "o", "u", "r", "s", "e", "-", "t", "a", "b", "l", "e", "\"", ">", "<", "t", "r",
      ">", "<", "t", "d", ">", "A", "<", "/", "t", "d", ">", "<", "t", "d", ">", "B", "<", "/", "t", "d",
      ">", "<", "/", "t", "r", ">", "<", "t", "r", ">", "<", "t", "d", ">", "1", "<", "/", "t", "d", ">",
      "<", "t", "d", ">", "2", "<", "/", "t", "d", ">", "<", "/", "t", "r", ">", "<", "/", "t", "a", "b",
      "l", "e", ">", "<", "/", "d", "i", "v", ">">>

\* C24, the other case the code gets wrong: the line of dashes after the
\* second row is dropped.
C24_SecondSeparatorDropped ==
  /\ probe.kind = "render"
  /\ probe.markdown = <<"|", " ", "A", " ", "|", " ", "B", " ", "|", "\n", "|", " ", "1", " ", "|", " ", "2", " ", "|", "\n",
      "|", "-", "-", "-", "|", "-", "-", "-", "|", "\n">>
  /\ probe.html = <<"<", "d", "i", "v", " ", "c", "l", "a", "s", "s", "=", "\"", "t", "a", "b", "l", "e", "-", "c", "o",
      "n", "t", "a", "i", "n", "e", "r", "\"", ">", "<", "t", "a", "b", "l", "e", " ", "c", "l", "a", "s",
      "s", "=", "\"", "c", "o", "u", "r", "s", "e", "-", "t", "a", "b", "l", "e", "\"", ">", "<", "t", "r",
      ">", "<", "t", "d", ">", "A", "<", "/", "t", "d", ">", "<", "t", "d", ">", "B", "<", "/", "t", "d",
      ">", "<", "/", "t", "r", ">", "<", "t", "r", ">", "<", "t", "d", ">", "1", "<", "/", "t", "d", ">",
      "<", "t", "d", ">", "2", "<", "/", "t", "d", ">", "<", "/", "t", "r", ">", "<", "/", "t", "a", "b",
      "l", "e", ">", "<", "/", "d", "i", "v", ">">>


RECURSIVE InlineCodeAsStated(_, _)
\* The inline-code pass as the claim states it, from position pos on: a
\* backtick that directly follows "</code>" is passed over, every other
\* backtick that has a partner is replaced together with it.
InlineCodeAsStated(html, pos) ==
  LET replaced(p, end, codeHtml) == InlineCodeAsStated(Replace(html, p, end - p + 1, codeHtml), p + Len(codeHtml))
      span(p, end) ==
        IF p = npos THEN html
        ELSE IF p >= 7 /\ SubStr(html, p - 7, 7) = <<"<", "/", "c", "o", "d", "e", ">">> THEN InlineCodeAsStated(html, p + 1)
        ELSE IF end = npos THEN html
        ELSE replaced(p, end, <<"<", "c", "o", "d", "e", ">">> \o SubStr(html, p + 1, end - p - 1) \o <<"<", "/", "c", "o", "d", "e", ">">>)
      opened(p) == span(p, IF p = npos THEN npos ELSE Find(html, <<Backtick>>, p + 1))
  IN opened(Find(html, <<Backtick>>, pos))

\* C25: in the inline-code pass a backtick that is immediately preceded by a
\* just-emitted closing tag </code> is skipped and its span is left
\* unconverted, while every other balanced pair of single backticks is
\* replaced by <code>...</code>; the other passes are as in the code.
C25_BacktickAfterCodeSkipped ==
  probe.kind = "render" =>
    probe.html = processTables(processLinks(processLists(processBoldText(
                   InlineCodeAsStated(FencedBlocks(processHeaders(probe.markdown), 0), 0)))))

\* C25, the case the code gets wrong: in `a``` the backtick after the
\* </code> of the first span is not skipped, it opens a second span.
C25_Divergence ==
  /\ probe.kind = "render"
  /\ probe.markdown = <<Backtick, "a", Backtick, Backtick, Backtick>>
  /\ probe.html = <<"<", "c", "o", "d", "e", ">", "a", "<", "/", "c", "o", "d", "e", ">", "<", "c", "o", "d", "e", ">",
      "<", "/", "c", "o", "d", "e", ">", "\n">>


\* The characters of a string.
IsString(s) == DOMAIN s = 1..Len(s) /\ \A k \in DOMAIN s : s[k] \in STRING

\* The text has an unbalanced marker of this kind: the marker occurs an odd
\* number of times.
Unbalanced(text, marker) == Count(text, marker, 0) % 2 = 1

\* C26: the renderer is total: for every input string, including unbalanced
\* or nested fences, odd numbers of backticks or double-asterisk markers and
\* unterminated tables, markdownToHtml returns a string; an unbalanced marker
\* (a fence, or a double asterisk or backtick of a text without fences) is
\* left as literal text.
C26_TotalAndLiteral ==
  probe.kind = "render" =>
    /\ IsString(probe.html)
    /\ (Find(probe.markdown, <<Backtick, Backtick, Backtick>>, 0) = npos /\ Unbalanced(probe.markdown, <<"*", "*">>)) =>
         Find(probe.html, <<"*", "*">>, 0) # npos
    /\ (Find(probe.markdown, <<Backtick, Backtick, Backtick>>, 0) = npos /\ Unbalanced(probe.markdown, <<Backtick>>)) =>
         Find(probe.html, <<Backtick>>, 0) # npos
    /\ Unbalanced(probe.markdown, <<Backtick, Backtick, Backtick>>) => Find(probe.html, <<Backtick, Backtick, Backtick>>, 0) # npos

\* C26 as the code has it: markdownToHtml returns a string for every input;
\* an unbalanced double asterisk or backtick of a text without fences is left
\* as literal text; an unbalanced fence is not: the inline
\* pass takes its backticks for single ones, so a text whose only backticks
\* are one fence has <code></code> and one backtick in its place.
C26_TotalAndPartial ==
  probe.kind = "render" =>
    /\ IsString(probe.html)
    /\ (Find(probe.markdown, <<Backtick, Backtick, Backtick>>, 0) = npos /\ Unbalanced(probe.markdown, <<"*", "*">>)) =>
         Find(probe.html, <<"*", "*">>, 0) # npos
    /\ (Find(probe.markdown, <<Backtick, Backtick, Backtick>>, 0) = npos /\ Unbalanced(probe.markdown, <<Backtick>>)) =>
         Find(probe.html, <<Backtick>>, 0) # npos
    /\ (Count(probe.markdown, <<Backtick>>, 0) = 3 /\ Find(probe.markdown, <<Backtick, Backtick, Backtick>>, 0) # npos) =>
         /\ Find(probe.html, <<"<", "c", "o", "d", "e", ">", "<", "/", "c", "o", "d", "e", ">", Backtick>>, 0) # npos
         /\ Find(probe.html, <<Backtick, Backtick, Backtick>>, 0) = npos

\* C26, its case: the text is a fence that is never closed, followed by a
\* double asterisk that is never closed; the result has an empty code span
\* and a backtick for the fence and the asterisks as they were.
C26_Witness ==
  /\ probe.kind = "render"
  /\ probe.markdown = <<Backtick, Backtick, Backtick, "a", "*", "*">>
  /\ probe.html = <<"<", "c", "o", "d", "e", ">", "<", "/", "c", "o", "d", "e", ">", Backtick, "a", "*", "*", "\n">>


\* The file extension of a path: what follows the last '.' of its last
\* segment, with the '.', or nothing.
Extension(path) ==
  LET dots == {k \in 1..Len(path) : path[k] = "." /\ \A j \in k..Len(path) : path[j] # "/"}
  IN IF dots = {} THEN <<>> ELSE SubSeq(path, CHOOSE k \in dots : \A j \in dots : j <= k, Len(path))

\* C27: for a static-asset request the Content-Type is determined by the
\* file extension of the path: text/html for .html, text/css for .css,
\* application/javascript for .js, application/json for .json, and text/plain
\* for any other extension.
C27_TypeByExtension ==
  probe.kind = "static" =>
    probe.contentType =
      CASE Extension(probe.path) = <<".", "h", "t", "m", "l">> -> <<"t", "e", "x", "t", "/", "h", "t", "m", "l">>
        [] Extension(probe.path) = <<".", "c", "s", "s">> -> <<"t", "e", "x", "t", "/", "c", "s", "s">>
        [] Extension(probe.path) = <<".", "j", "s">> -> <<"a", "p", "p", "l", "i", "c", "a", "t", "i", "o", "n", "/", "j", "a", "v", "a", "s", "c", "r", "i", "p", "t">>
        [] Extension(probe.path) = <<".", "j", "s", "o", "n">> -> <<"a", "p", "p", "l", "i", "c", "a", "t", "i", "o", "n", "/", "j", "s", "o", "n">>
        [] OTHER -> <<"t", "e", "x", "t", "/", "p", "l", "a", "i", "n">>

\* C27, the case the code gets wrong: the file /js/data.json is served with
\* the type application/javascript.
C27_Divergence ==
  /\ probe.kind = "static"
  /\ probe.path = <<"/", "j", "s", "/", "d", "a", "t", "a", ".", "j", "s", "o", "n">>
  /\ probe.statusCode = 200
  /\ probe.responseBody = <<"{", "}">>
  /\ probe.contentType = <<"a", "p", "p", "l", "i", "c", "a", "t", "i", "o", "n", "/", "j", "a", "v", "a", "s", "c", "r", "i", "p", "t">>


\* The start of the status line of a response with the given status.
StatusLine(statusCode) == <<"H", "T", "T", "P", "/", "1", ".", "1", " ">> \o IntToStr(statusCode) \o <<" ">>

\* The worker of connection c is about to close it after sending a response
\* with the given status to the given request.
Answered(c, sent, statusCode) ==
  /\ workers[c].pc = "close"
  /\ workers[c].sent = sent
  /\ Find(workers[c].response, StatusLine(statusCode), 0) = 0

\* C28: every accepted connection is handled by exactly one worker, which
\* reads once, sends exactly one response when the read returned at least one
\* byte and no response otherwise, and then closes the client socket exactly
\* once on every path (200, 400, 404, 405, empty read); a worker never
\* handles a second request on the same connection. A worker only moves from
\* recv to the handling of what it read or, with nothing read, to close, from
\* the handling to close, and from close to its end; when it closes it has
\* sent one response (that of the first request read) exactly when it read
\* something; an accept starts one worker.
C28_HandledOnce ==
  /\ [](\A c \in ConnIds : workers[c].pc = "close" =>
          /\ workers[c].sent # <<>> <=> workers[c].response # <<>>
          /\ workers[c].sent # <<>> =>
               /\ workers[c].response \in Alone(workers[c].sent)
               /\ Count(workers[c].response, <<"H", "T", "T", "P", "/", "1", ".", "1", " ">>, 0) = 1)
  /\ [][/\ Cardinality({c \in ConnIds : workers'[c].pc = "recv" /\ workers[c].pc # "recv"}) <= 1
        /\ \A c \in ConnIds : workers'[c] # workers[c] =>
             \/ workers[c].pc = "unborn" /\ workers'[c].pc = "recv"
             \/ workers[c].pc = "recv" /\ workers'[c].pc = "handle" /\ workers'[c].sent # <<>>
             \/ workers[c].pc = "recv" /\ workers'[c].pc = "close" /\ workers'[c].sent = <<>> /\ workers'[c].response = <<>>
             \/ workers[c].pc = "handle" /\ workers'[c].pc = "close" /\ workers'[c].sent = workers[c].sent
             \/ workers[c].pc = "close" /\ workers'[c].pc = "done"]_vars

\* C28 witness: one worker is about to close its connection after an empty
\* read, without a response, and the other after answering 400; and answers
\* 200, 404 and 405 are reached the same way.
C28_Witness ==
  \E c, d \in ConnIds :
    /\ workers[c].pc = "close" /\ workers[c].sent = <<>> /\ workers[c].response = <<>>
    /\ Answered(d, GetCourseOnly, 400)

\* C28 witness for the other paths: two workers are about to close after
\* answering 404 and 405.
C28_WitnessOtherPaths ==
  \E c, d \in ConnIds : Answered(c, GetNothing, 404) /\ Answered(d, DeleteHealth, 405)


\* C29: in every reachable state of every interleaving of start(), stop() and
\* the accept loop, with one caller of start/stop at a time, whenever the
\* running flag is true the server holds an open listening socket and its
\* descriptor is not -1: start() sets the flag only after the socket is bound
\* and listening, and stop() clears the flag before it closes the socket.
C29_RunningHasSocket ==
  running_ => serverSocket_ # -1 /\ sockets[serverSocket_].state = "listening"

\* C29 witness: the server was started, stopped and started again; it runs on
\* its second listening socket, the first is closed, and its accept loop is
\* blocked in accept().
C29_Witness ==
  /\ running_
  /\ serverSocket_ = 2
  /\ sockets[2].state = "listening"
  /\ sockets[1].state = "closed"
  /\ \E t \in ThreadIds : loops[t].pc = "accept" /\ loops[t].fd = 2


\* Whether the lesson of the module was loaded: it has a record in the
\* loader's catalog.
IsLoaded(module, lesson) == module \in DOMAIN modules_ /\ lesson \in DOMAIN modules_[module].lessonData

\* The content of a lesson as generateCoursePage puts it into the page.
LessonContent(content) ==
  <<"<", "d", "i", "v", " ", "c", "l", "a", "s", "s", "=", "\"", "l", "e", "s", "s", "o", "n", "-", "c",
      "o", "n", "t", "e", "n", "t", "\"", ">">> \o content \o <<"<", "/", "d", "i", "v", ">">>

\* The heading of the page for a module or lesson that does not exist.
NotFoundHeading(what) ==
  <<"<", "h", "2", ">">> \o what \o <<" ", "N", "o", "t", " ", "F", "o", "u", "n", "d", "<", "/", "h", "2", ">">>

\* C30: for every lesson that was successfully loaded, the page returned for
\* its content path embeds that lesson's cached rendered HTML, whatever text
\* the lesson contains (a text with the phrase "Lesson Not Found" or "Module
\* Not Found" included); the placeholder and the Not Found pages are returned
\* only for lessons that are not loaded.
C30_LoadedLessonEmbedded ==
  probe.kind = "page" =>
    IF IsLoaded(probe.module, probe.lesson)
      THEN /\ probe.statusCode = 200
           /\ Find(probe.responseBody, LessonContent(modules_[probe.module].lessonData[probe.lesson].htmlContent), 0) # npos
           /\ Find(probe.responseBody, Placeholder(probe.lesson), 0) = npos
      ELSE \/ Find(probe.responseBody, Placeholder(probe.lesson), 0) # npos
           \/ Find(probe.responseBody, NotFoundHeading(<<"M", "o", "d", "u", "l", "e">>), 0) # npos
           \/ Find(probe.responseBody, NotFoundHeading(<<"L", "e", "s", "s", "o", "n">>), 0) # npos

\* C30, the case the code gets wrong: errors.md was read and rendered, its
\* cached HTML contains "Lesson Not Found", and the page of the lesson has
\* the placeholder content and not the cached HTML.
C30_Divergence ==
  /\ probe.kind = "page"
  /\ probe.module = <<"f", "u", "n", "d", "a", "m", "e", "n", "t", "a", "l", "s">>
  /\ probe.lesson = <<"e", "r", "r", "o", "r", "s">>
  /\ IsLoaded(probe.module, probe.lesson)
  /\ modules_[probe.module].lessonData[probe.lesson].content = <<"L", "e", "s", "s", "o", "n", " ", "N", "o", "t", " ", "F", "o", "u", "n", "d", "\n">>
  /\ Find(modules_[probe.module].lessonData[probe.lesson].htmlContent, <<"L", "e", "s", "s", "o", "n", " ", "N", "o", "t", " ", "F", "o", "u", "n", "d">>, 0) # npos
  /\ probe.statusCode = 200
  /\ Find(probe.responseBody, LessonContent(Placeholder(probe.lesson)), 0) # npos
  /\ Find(probe.responseBody, modules_[probe.module].lessonData[probe.lesson].htmlContent, 0) = npos

====
